---- MODULE Spec2Model ----
(***************************************************************************)
(* Model of the procedural content pipeline of UnderstoryScene:            *)
(*   - src/src/foliage.rs   ShrubEntitiesBuilder, probability_distribution,*)
(*                          generate_points_on_distribution                *)
(*   - src/src/assets.rs    ImageNoiseFnWrapper                            *)
(*   - src/src/scene.rs     Scene::create                                  *)
(*   - src/src/mesh.rs      ElementMeshVAO / InstancedMeshesVAO            *)
(*                                                                         *)
(* Numbers.  An f32/f64 value r is represented by the integer r * FP, and  *)
(* every arithmetic operation rounds its exact result to the nearest       *)
(* representable value, as IEEE arithmetic does.  A uniform sample of      *)
(* gen::<f32>() is the fraction s / RngMod of the generator state s, which *)
(* is finer than the value grid, so that the rounding of fx + dx * u is    *)
(* part of the model.                                                      *)
(***************************************************************************)
EXTENDS Integers, Sequences, FiniteSets, TLC

VARIABLES
    ambient,      \* state of the process environment (clock, OS entropy)
    builder,      \* the ShrubEntitiesBuilder being configured
    phase,        \* "building" | "loaded" | "reloaded" | "panicked"
    load_seed,    \* the seed passed to ShrubEntitiesBuilder::load
    loaded,       \* outcome of load
    reloaded,     \* outcome of the second load of the same builder and seed
    gl_objects,   \* number of live GPU objects (vertex arrays and buffers)
    gp_in,        \* arguments of generate_points_on_distribution
    gp_out,       \* its result
    gp_again,     \* result of a second call with the same arguments
    q,            \* arguments of the last pure-function evaluation
    r,            \* its result
    assets,       \* the Assets shared by all scenes (here: the base map)
    scene_seed,   \* seed passed to Scene::create
    scene,        \* the Scene built
    scene_again,  \* the Scene built by a second Scene::create of that seed
    not_current_gl_context, \* main: the GL context before it is made current
    state,        \* main: Some(..) once the surface exists (after Resumed)
    renderer,     \* main: the Renderer, with its current seed and Scene
    frame,        \* what the last RedrawRequested drew
    gpu,          \* live GPU objects of each Scene built, oldest first
    nav,          \* seed and Scene before each of the last two seed steps
    loop_status   \* "running" | "exited" | "panicked"

vars == <<ambient, builder, phase, load_seed, loaded, reloaded, gl_objects,
          gp_in, gp_out, gp_again, q, r, assets, scene_seed, scene,
          scene_again, not_current_gl_context, state, renderer, frame, gpu,
          nav, loop_status>>

loadVars == <<builder, phase, load_seed, loaded, reloaded, gl_objects>>
pointVars == <<gp_in, gp_out, gp_again>>
pureVars == <<q, r>>
sceneVars == <<assets, scene_seed, scene, scene_again>>
loopVars == <<not_current_gl_context, state, renderer, frame, gpu, nav,
              loop_status>>

\* Option<T>: None is the empty sequence, Some(x) the sequence <<x>>
None == <<>>

Some(x) == <<x>>

(***************************************************************************)
(* Bounds of the model.                                                    *)
(***************************************************************************)
\* Stand-in for `resolution = 100` of generate_points_on_distribution: the
\* number of grid cells per axis.
GridRes == 2
\* Seeds range over 0 .. MaxSeed instead of all of u32.
MaxSeed == 3
\* Values the process environment can take.
MaxAmbient == 1

(***************************************************************************)
(* Fixed-point reals with round-to-nearest.                                *)
(***************************************************************************)
FP == 10

RoundDiv(a, b) == (2 * a + b) \div (2 * b)

Mul(a, b) == RoundDiv(a * b, FP)

Div(a, b) == RoundDiv(a * FP, b)

\* f32::floor followed by `as usize` (saturating: a negative value gives 0)
FloorAsUsize(a) == IF a < 0 THEN 0 ELSE a \div FP

Min(a, b) == IF a < b THEN a ELSE b

Max(a, b) == IF a > b THEN a ELSE b

Clamp(v, lo, hi) == Max(lo, Min(v, hi))

Range(s) == {s[i] : i \in DOMAIN s}

(***************************************************************************)
(* Random generators.  StdRng and SmallRng are deterministic generators:   *)
(* a state, a seeding function and a step function.  They are modelled as  *)
(* linear congruential generators modulo RngMod.                           *)
(***************************************************************************)
RngMod == 4096

StdRngSeedFromEntropy(seed) == (seed * 1237 + 2003 * ambient + 11) % RngMod

StdRngSeedFromU64(seed) == (seed * 1237 + 11) % RngMod

SmallRngSeedFromEntropy(seed) == (seed * 2311 + 1009 * ambient + 77) % RngMod

SmallRngSeedFromU64(seed) == (seed * 2311 + 77) % RngMod

RngNext(s) == (s * 1229 + 1) % RngMod

\* rng.gen::<f32>() returns s / RngMod in [0, 1); x * u is rounded
MulU(x, s) == RoundDiv(x * s, RngMod)

\* the f32 sum d + u, rounded
AddU(d, s) == d + RoundDiv(s * FP, RngMod)

\* gen_index(rng, ubound) of SliceRandom::shuffle: an index in 0 .. ubound-1
GenIndex(s, ubound) == s % ubound

(***************************************************************************)
(* Scene constants.                                                        *)
(***************************************************************************)
\* pub const SCENE_SIZE: f32 = 15.0
SCENE_SIZE == 15 * FP

\* usize::MAX, the default of num_limit: the largest integer of the model
USIZE_MAX == 2147483647

(***************************************************************************)
(* Images and ImageNoiseFnWrapper (assets.rs).                             *)
(* An image is [width, height, px] with px[<<col, row>>] an RGBA tuple of  *)
(* bytes; get_pixel(col, row) panics unless col < width and row < height.  *)
(***************************************************************************)
\* `as u32` of the f64 num / den: truncation toward zero, a negative value
\* gives 0 (the saturation at u32::MAX is beyond the coordinates modelled,
\* and is followed by a clamp to a smaller value)
F64AsU32(num, den) ==
    IF num <= 0 THEN 0 ELSE num \div den

\* ImageNoiseFnWrapper::get with the pixel read left abstract: the indices
\* computed, the pixel coordinates handed to get_pixel, and whether
\* get_pixel accepts them.
ImageLookup(img, px, py) ==
    LET x0 == F64AsU32(px * img.width, SCENE_SIZE)
        y0 == F64AsU32(py * img.height, SCENE_SIZE)
        x == Clamp(x0, 0, img.width - 1)
        y == Clamp(y0, 0, img.height - 1)
    IN  [x |-> x, y |-> y, col |-> y, row |-> x,
         in_bounds |-> (y < img.width /\ x < img.height)]

\* value of channel `channel` (1 = red, 2 = green, 3 = blue) divided by 255;
\* when get_pixel panics there is no value (ImagePanics holds, 0 stands in)
ImageGet(img, channel, px, py) ==
    LET l == ImageLookup(img, px, py)
    IN  IF l.in_bounds
        THEN RoundDiv(img.px[<<l.col, l.row>>][channel] * FP, 255)
        ELSE 0

ImagePanics(img, px, py) == ~ImageLookup(img, px, py).in_bounds

(***************************************************************************)
(* NoiseFn values (the combinators of the noise crate that the pipeline    *)
(* composes) as records, evaluated by Get.                                 *)
(***************************************************************************)
\* Values of the fractal noise: the library returns values in [-1, 1].
NoiseTable == <<-10, -9, -8, -10, -9, -10, -8, -9, -10, 0, -9>>

\* Fbm::<Perlin>::new(seed).get([px, py])
FbmPerlin(seed, px, py) ==
    NoiseTable[1 + ((seed * 31 + px * 7 + py * 13) % Len(NoiseTable))]

FbmNew(seed) == [op |-> "fbm", seed |-> seed]

Constant(v) == [op |-> "constant", v |-> v]

ScaleBias(src, scale, bias) ==
    [op |-> "scale_bias", src |-> src, scale |-> scale, bias |-> bias]

Power(src, exponent) == [op |-> "power", src |-> src, exponent |-> exponent]

Multiply(a, b) == [op |-> "multiply", src |-> a, src2 |-> b]

Add(a, b) == [op |-> "add", src |-> a, src2 |-> b]

ImageNoiseFnWrapper(img, channel) ==
    [op |-> "image", img |-> img, channel |-> channel]

\* A piecewise constant field over four quadrants, used as an arbitrary
\* `distribution: impl NoiseFn<f64, 2>` argument.
Quadrants(sx, sy, v) == [op |-> "quadrants", sx |-> sx, sy |-> sy, v |-> v]

\* ScaleBias::get: value * scale + bias
ScaleBiasGet(v, scale, bias) == Mul(v, scale) + bias

RECURSIVE Get(_, _, _)
Get(f, px, py) ==
    CASE f.op = "constant" -> f.v
      [] f.op = "fbm" -> FbmPerlin(f.seed, px, py)
      [] f.op = "image" -> ImageGet(f.img, f.channel, px, py)
      [] f.op = "quadrants" ->
            f.v[(IF px < f.sx THEN 0 ELSE 2) + (IF py < f.sy THEN 1 ELSE 2)]
      [] f.op = "scale_bias" -> ScaleBiasGet(Get(f.src, px, py), f.scale, f.bias)
      [] f.op = "power" ->
            LET v == Get(f.src, px, py) IN Mul(v, v)
      [] f.op = "multiply" -> Mul(Get(f.src, px, py), Get(f.src2, px, py))
      [] f.op = "add" -> Get(f.src, px, py) + Get(f.src2, px, py)

\* whether evaluating f at (px, py) panics (an image read out of bounds)
RECURSIVE GetPanics(_, _, _)
GetPanics(f, px, py) ==
    CASE f.op = "image" -> ImagePanics(f.img, px, py)
      [] f.op \in {"scale_bias", "power"} -> GetPanics(f.src, px, py)
      [] f.op \in {"multiply", "add"} ->
            GetPanics(f.src, px, py) \/ GetPanics(f.src2, px, py)
      [] OTHER -> FALSE

(***************************************************************************)
(* probability_distribution (foliage.rs).                                  *)
(***************************************************************************)
\* the ScaleBias the function wraps around the fractal noise
DistributionScale(density) == Div(density, 2 * FP)

DistributionBias(density) == 1 * FP

probability_distribution(density, seed) ==
    ScaleBias(FbmNew(seed), DistributionScale(density), DistributionBias(density))

\* the value of the field where the fractal noise has value v
DistributionAt(density, v) ==
    ScaleBiasGet(v, DistributionScale(density), DistributionBias(density))

(***************************************************************************)
(* generate_points_on_distribution (foliage.rs).                           *)
(* rect = <<x_min, x_max, y_min, y_max>>.  The loops `for x` / `for y` are  *)
(* unrolled over the cell number k = x * GridRes + y.  Besides the points, *)
(* the result records, per visited cell, what the loop body did.           *)
(***************************************************************************)
CellDx(rect) == Div(rect[2] - rect[1], GridRes * FP)

CellDy(rect) == Div(rect[4] - rect[3], GridRes * FP)

\* a plausible slip: the cells counted from one
CellFxFromOne(rect, x) == rect[1] + CellDx(rect) * (x + 1)

CellFx(rect, x) == rect[1] + CellDx(rect) * x

CellFy(rect, y) == rect[3] + CellDy(rect) * y

\* a plausible slip: the centre's y coordinate taken from the x index
CellCentreSwapped(rect, x, y) ==
    <<CellFx(rect, x) + RoundDiv(CellDx(rect), 2),
      CellFy(rect, x) + RoundDiv(CellDy(rect), 2)>>

\* [(fx + dx / 2.).into(), (fy + dy / 2.).into()]
CellCentre(rect, x, y) ==
    <<CellFx(rect, x) + RoundDiv(CellDx(rect), 2),
      CellFy(rect, y) + RoundDiv(CellDy(rect), 2)>>

\* distribution.get(centre) as f32 * area
CellDensity(distribution, rect, x, y) ==
    LET c == CellCentre(rect, x, y)
    IN  Mul(Get(distribution, c[1], c[2]), Mul(CellDx(rect), CellDy(rect)))

\* a plausible slip: only negative expected counts are skipped
SkipsCellStrict(density) == density < 0

\* if density <= 0.0 { continue; }
SkipsCell(density) == density <= 0

\* a plausible slip: the sum rounded to the nearest integer, not floored
NumPointsRounded(density, s) == FloorAsUsize(AddU(density, s) + FP \div 2)

\* (density + rng.gen::<f32>()).floor() as usize, s the generator state
\* after the draw
NumPointsInChunk(density, s) == FloorAsUsize(AddU(density, s))

\* the inner loop: n points, two draws each (x offset, then y offset).
\* The iterations are split in halves, the second half starting from the
\* generator state the first half leaves.
RECURSIVE ChunkPoints(_, _, _, _, _, _)
ChunkPoints(fx, fy, dx, dy, rng, n) ==
    IF n = 0 THEN [pts |-> <<>>, rng |-> rng]
    ELSE IF n = 1
    THEN LET sx == RngNext(rng)
             sy == RngNext(sx)
         IN  [pts |-> <<[x |-> fx + MulU(dx, sx), y |-> fy + MulU(dy, sy)]>>,
              rng |-> sy]
    ELSE LET first == ChunkPoints(fx, fy, dx, dy, rng, n \div 2)
             rest == ChunkPoints(fx, fy, dx, dy, first.rng, n - n \div 2)
         IN  [pts |-> first.pts \o rest.pts, rng |-> rest.rng]

\* what the loop body did for cell (x, y): the points ch it pushed from
\* generator state rng
CellRecord(x, y, density, rng, ch) ==
    [x |-> x, y |-> y, density |-> density, panicked |-> FALSE,
     drew |-> TRUE, rng_before |-> rng, rng_after |-> ch.rng, pts |-> ch.pts]

\* the loop body once the density of the cell is known
VisitCellWith(rect, x, y, rng, panics, density) ==
    IF panics
    THEN [x |-> x, y |-> y, density |-> 0, panicked |-> TRUE, drew |-> FALSE,
          rng_before |-> rng, rng_after |-> rng, pts |-> <<>>]
    ELSE IF SkipsCell(density)
    THEN [x |-> x, y |-> y, density |-> density, panicked |-> FALSE,
          drew |-> FALSE, rng_before |-> rng, rng_after |-> rng, pts |-> <<>>]
    ELSE LET s == RngNext(rng)
         IN  CellRecord(x, y, density, rng,
                 ChunkPoints(CellFx(rect, x), CellFy(rect, y),
                             CellDx(rect), CellDy(rect), s,
                             NumPointsInChunk(density, s)))

\* get_pixel panics for the centre of cell (x, y)
CellPanics(distribution, rect, x, y) ==
    LET c == CellCentre(rect, x, y)
    IN  GetPanics(distribution, c[1], c[2])

\* one iteration of the loop body for cell (x, y), from generator state rng
VisitCell(distribution, rect, x, y, rng) ==
    VisitCellWith(rect, x, y, rng, CellPanics(distribution, rect, x, y),
                  CellDensity(distribution, rect, x, y))

RECURSIVE VisitCells(_, _, _, _)
\* the iterations after that of cell k, whose record is v
VisitCellsAfter(distribution, rect, k, v) ==
    IF v.panicked THEN <<v>>
    ELSE <<v>> \o VisitCells(distribution, rect, k + 1, v.rng_after)

\* a plausible slip: the y index in the outer loop
VisitCellsYOuter(distribution, rect, k, rng) ==
    IF k = GridRes * GridRes THEN <<>>
    ELSE VisitCellsAfter(distribution, rect, k,
             VisitCell(distribution, rect, k % GridRes, k \div GridRes, rng))

VisitCells(distribution, rect, k, rng) ==
    IF k = GridRes * GridRes THEN <<>>
    ELSE VisitCellsAfter(distribution, rect, k,
             VisitCell(distribution, rect, k \div GridRes, k % GridRes, rng))

RECURSIVE ConcatPoints(_, _)
ConcatPoints(cells, i) ==
    IF i > Len(cells) THEN <<>> ELSE cells[i].pts \o ConcatPoints(cells, i + 1)

\* the vector returned after the cells visited, and the record of the visits
PointsOf(cells, last) ==
    [panicked |-> last.panicked,
     points |-> IF last.panicked THEN <<>> ELSE ConcatPoints(cells, 1),
     cells |-> cells,
     rng |-> last.rng_after]

PointsOfCells(cells) == PointsOf(cells, cells[Len(cells)])

generate_points_on_distribution(distribution, rect, seed) ==
    PointsOfCells(VisitCells(distribution, rect, 0, StdRngSeedFromU64(seed)))

(***************************************************************************)
(* Meshes and their GPU objects (mesh.rs).  A mesh is                      *)
(* [positions, normals, uvs (lengths of the f32 vectors), indices].        *)
(***************************************************************************)
\* Mesh::quad()
MeshQuad == [positions |-> 12, normals |-> 12, uvs |-> 8,
             indices |-> <<0, 1, 2, 0, 2, 3>>]

\* a mesh whose indices point to a vertex it does not have
MeshBadIndex == [positions |-> 12, normals |-> 12, uvs |-> 8,
                 indices |-> <<0, 1, 4>>]

SeqMax(s) == CHOOSE m \in Range(s) : \A e \in Range(s) : e <= m

\* a plausible slip: an index equal to the vertex count is accepted
check_consitency_inclusive(mesh) ==
    IF mesh.positions % 3 # 0 THEN FALSE
    ELSE IF mesh.normals % 3 # 0 THEN FALSE
    ELSE IF mesh.normals # 0 /\ mesh.normals # mesh.positions THEN FALSE
    ELSE IF mesh.uvs % 2 # 0 THEN FALSE
    ELSE IF mesh.uvs # 0 /\ mesh.uvs # (mesh.positions \div 3) * 2 THEN FALSE
    ELSE IF Len(mesh.indices) % 3 # 0 THEN FALSE
    ELSE IF mesh.indices = <<>> THEN FALSE
    ELSE IF SeqMax(mesh.indices) > mesh.positions \div 3 THEN FALSE
    ELSE TRUE

\* Mesh::check_consitency: TRUE for Ok(()), FALSE for Err(_)
check_consitency(mesh) ==
    IF mesh.positions % 3 # 0 THEN FALSE
    ELSE IF mesh.normals % 3 # 0 THEN FALSE
    ELSE IF mesh.normals # 0 /\ mesh.normals # mesh.positions THEN FALSE
    ELSE IF mesh.uvs % 2 # 0 THEN FALSE
    ELSE IF mesh.uvs # 0 /\ mesh.uvs # (mesh.positions \div 3) * 2 THEN FALSE
    ELSE IF Len(mesh.indices) % 3 # 0 THEN FALSE
    ELSE IF mesh.indices = <<>> THEN FALSE
    ELSE IF SeqMax(mesh.indices) >= mesh.positions \div 3 THEN FALSE
    ELSE TRUE

\* GPU objects ElementMeshVAO::new_from_mesh creates: one vertex array and
\* the position, normal, uv and index buffers
MeshVaoObjects == 1 + 4

\* a plausible slip: the triangles are generated for the edge vertices too
QuadIndicesOnEdges(num_quads, x, y) ==
    LET this_i == x + y * (num_quads + 1)
    IN  <<this_i, this_i + 1, this_i + (num_quads + 1),
          this_i + 1, this_i + (num_quads + 1) + 1, this_i + (num_quads + 1)>>

\* the indices quad_mesh pushes for vertex (x, y): two triangles unless the
\* vertex is on the upper edge
QuadIndices(num_quads, x, y) ==
    IF x < num_quads /\ y < num_quads
    THEN LET this_i == x + y * (num_quads + 1)
         IN  <<this_i, this_i + 1, this_i + (num_quads + 1),
               this_i + 1, this_i + (num_quads + 1) + 1, this_i + (num_quads + 1)>>
    ELSE <<>>

\* the loops `for y in 0..=num_quads { for x in 0..=num_quads` from
\* iteration k = y * (num_quads + 1) + x on: three positions, three normals
\* and two uvs per vertex, then its indices
RECURSIVE QuadMeshLoop(_, _)
QuadMeshLoop(num_quads, k) ==
    IF k = (num_quads + 1) * (num_quads + 1)
    THEN [positions |-> 0, normals |-> 0, uvs |-> 0, indices |-> <<>>]
    ELSE LET rest == QuadMeshLoop(num_quads, k + 1)
         IN  [positions |-> 3 + rest.positions,
              normals |-> 3 + rest.normals,
              uvs |-> 2 + rest.uvs,
              indices |-> QuadIndices(num_quads, k % (num_quads + 1),
                                      k \div (num_quads + 1)) \o rest.indices]

\* Mesh::quad_mesh(num_quads)
quad_mesh(num_quads) == QuadMeshLoop(num_quads, 0)

\* ElementMeshVAO::new_from_mesh: the `expect` on check_consitency panics
\* before glGenVertexArrays; otherwise the vertex array and its buffers
\* are created
new_from_mesh(mesh) ==
    IF ~check_consitency(mesh)
    THEN [ok |-> FALSE, panicked |-> TRUE, gl_created |-> 0]
    ELSE [ok |-> TRUE, panicked |-> FALSE, gl_created |-> MeshVaoObjects]

\* GPU objects InstancedMeshesVAO::from_existing_with_models adds: the
\* model matrix and the normal matrix buffers
InstanceVaoObjects == 2

(***************************************************************************)
(* Matrices (nalgebra_glm).  A Mat4 is a sequence of four rows.  The       *)
(* angle of a rotation is in units of 1/100 radian and its cosine and sine *)
(* are piecewise linear between the exact values at multiples of pi/2.     *)
(***************************************************************************)
Uniform_0_628_High == 628

QuarterTurn == 157

Cos(a) ==
    LET t == a % (4 * QuarterTurn)
    IN  IF t <= 2 * QuarterTurn
        THEN FP - RoundDiv(FP * t, QuarterTurn)
        ELSE RoundDiv(FP * (t - 2 * QuarterTurn), QuarterTurn) - FP

Sin(a) == Cos(a + 3 * QuarterTurn)

Identity4 == [i \in 1 .. 4 |-> [j \in 1 .. 4 |-> IF i = j THEN FP ELSE 0]]

MatMul(A, B) ==
    [i \in 1 .. 4 |-> [j \in 1 .. 4 |->
        RoundDiv(A[i][1] * B[1][j] + A[i][2] * B[2][j]
                 + A[i][3] * B[3][j] + A[i][4] * B[4][j], FP)]]

Translation(v) ==
    <<<<FP, 0, 0, v[1]>>, <<0, FP, 0, v[2]>>, <<0, 0, FP, v[3]>>, <<0, 0, 0, FP>>>>

RotationZ(a) ==
    <<<<Cos(a), -Sin(a), 0, 0>>, <<Sin(a), Cos(a), 0, 0>>,
      <<0, 0, FP, 0>>, <<0, 0, 0, FP>>>>

Scaling(v) ==
    <<<<v[1], 0, 0, 0>>, <<0, v[2], 0, 0>>, <<0, 0, v[3], 0>>, <<0, 0, 0, FP>>>>

\* glm::translate(m, v): m * T(v)
glm_translate(m, v) == MatMul(m, Translation(v))

\* a plausible slip: the rotation applied on the left of its argument
glm_rotate_z_left(m, a) == MatMul(RotationZ(a), m)

\* glm::rotate_z(m, angle): m * Rz(angle)
glm_rotate_z(m, a) == MatMul(m, RotationZ(a))

\* glm::scale(m, v): m * S(v)
glm_scale(m, v) == MatMul(m, Scaling(v))

\* the matrix the closure of `load` builds for point p
ModelMat(p, height, rotation_angle, scale, z_scale) ==
    glm_scale(
        glm_rotate_z(
            glm_translate(Identity4, <<p.x, p.y, height>>),
            rotation_angle),
        <<scale, scale, Mul(scale, z_scale)>>)

(***************************************************************************)
(* ShrubEntitiesBuilder::load (foliage.rs).                                *)
(***************************************************************************)
\* Uniform::new(low, high).sample: low + u * (high - low), below high
UniformNew(low, high, s) == Min(low + MulU(high - low, s), high - 1)

\* a plausible slip: the upper end taken for the width of the range
UniformNewInclusiveWidth(low, high, s) == low + MulU(high, s)

\* Uniform::new_inclusive(low, high).sample: low + u * (high - low)
UniformNewInclusive(low, high, s) == low + MulU(high - low, s)

\* a plausible slip: the element is copied instead of exchanged
SwapCopy(seq, i, j) == [seq EXCEPT ![i] = seq[j]]

\* slice::swap
Swap(seq, i, j) == [seq EXCEPT ![i] = seq[j], ![j] = seq[i]]

\* SliceRandom::shuffle: for i in (1..len).rev() { swap(i, gen_index(i + 1)) }
\* Shuffle(seq, hi, lo, rng) runs the iterations for the 1-based positions
\* hi, hi - 1, .. lo, the later ones on the result of the earlier ones.
RECURSIVE Shuffle(_, _, _, _)
Shuffle(seq, hi, lo, rng) ==
    IF hi < lo THEN [seq |-> seq, rng |-> rng]
    ELSE IF hi = lo
    THEN LET s == RngNext(rng)
         IN  [seq |-> Swap(seq, hi, GenIndex(s, hi) + 1), rng |-> s]
    ELSE LET mid == (hi + lo) \div 2
             first == Shuffle(seq, hi, mid + 1, rng)
         IN  \* (the test makes TLC evaluate the first half first)
             IF first.rng < 0 THEN first
             ELSE Shuffle(first.seq, mid, lo, first.rng)

\* a plausible slip: one element too many is kept
ResizeOneMore(seq, n) == SubSeq(seq, 1, n + 1)

\* Vec::resize_with(n, ..) of a vector at least n long: truncation
Resize(seq, n) == SubSeq(seq, 1, n)

\* a plausible slip: the positions are shuffled whether or not the cap applies
CapPositionsAlwaysShuffled(positions, num_limit, rng) ==
    LET sh == Shuffle(positions, Len(positions), 2, rng)
    IN  [positions |-> Resize(sh.seq, Min(num_limit, Len(positions))),
         shuffled |-> sh.seq, rng |-> sh.rng]

\* if positions.len() > self.num_limit { shuffle; resize_with }
CapPositions(positions, num_limit, rng) ==
    IF Len(positions) > num_limit
    THEN LET sh == Shuffle(positions, Len(positions), 2, rng)
         IN  [positions |-> Resize(sh.seq, num_limit), shuffled |-> sh.seq,
              rng |-> sh.rng]
    ELSE [positions |-> positions, shuffled |-> positions, rng |-> rng]

\* the transform of the instance at p:
\* scale(rotate_z(translate(identity, (p.x, p.y, height_map.get(p))), angle), ..)
InstanceTransform(height_map, p, rotation_angle, z_scale, scale) ==
    ModelMat(p, Get(height_map, p.x, p.y), rotation_angle, scale, z_scale)

\* the closure mapped over the positions lo .. hi: three draws (rotation,
\* z scale, scale), then the matrix; later positions continue from the
\* generator state of the earlier ones
RECURSIVE Instances(_, _, _, _, _)
Instances(b, positions, lo, hi, rng) ==
    IF hi < lo THEN [list |-> <<>>, rng |-> rng]
    ELSE IF hi = lo
    THEN LET p == positions[lo]
             s1 == RngNext(rng)
             s2 == RngNext(s1)
             s3 == RngNext(s2)
             rotation_angle == UniformNew(0, Uniform_0_628_High, s1)
             z_scale == UniformNewInclusive(b.z_scale_range[1], b.z_scale_range[2], s2)
             scale == UniformNewInclusive(b.scale_range[1], b.scale_range[2], s3)
         IN  [list |-> <<[p |-> p, rotation_angle |-> rotation_angle,
                          z_scale |-> z_scale, scale |-> scale,
                          mat |-> InstanceTransform(b.height_map[1], p,
                                      rotation_angle, z_scale, scale)]>>,
              rng |-> s3]
    ELSE LET mid == (hi + lo) \div 2
             first == Instances(b, positions, lo, mid, rng)
             rest == Instances(b, positions, mid + 1, hi, first.rng)
         IN  [list |-> first.list \o rest.list, rng |-> rest.rng]

LoadPanic(status, gl_created) ==
    [status |-> status, gl_created |-> gl_created,
     raw |-> <<>>, shuffled |-> <<>>, positions |-> <<>>, instances |-> <<>>,
     instance_count |-> 0, rng_points |-> 0, rng_cap |-> 0, rng |-> 0]

\* one of the four `expect`s fails
MissingConfig(b) ==
    b.height_map = None \/ b.model = None \/ b.texture = None \/ b.shader = None

\* a plausible slip: the bias left at the default of ScaleBias, 0.0
BushinessFactorNoBias(bushiness) == ScaleBias(Power(bushiness, 2 * FP), 2 * FP, 0)

\* the factor of the modulation: Power(bushiness, 2.0), then ScaleBias with
\* scale 2.0 and bias 0.1
BushinessFactor(bushiness) ==
    ScaleBias(Power(bushiness, 2 * FP), 2 * FP, RoundDiv(FP, 10))

\* the density field handed to generate_points_on_distribution
LoadDistribution(b, seed) ==
    LET distr == probability_distribution(b.density, seed)
    IN  IF b.bushiness # None
        THEN Multiply(distr, BushinessFactor(b.bushiness[1]))
        ELSE distr

\* the ShrubEntities returned: the instanced VAO of the models inst.list
LoadResult(s2, gen, cap, inst) ==
    [status |-> "ok",
     gl_created |-> MeshVaoObjects + InstanceVaoObjects,
     raw |-> gen.points, shuffled |-> cap.shuffled,
     positions |-> cap.positions, instances |-> inst.list,
     instance_count |-> Len(inst.list),
     rng_points |-> s2, rng_cap |-> cap.rng, rng |-> inst.rng]

\* `load` once the positions are capped: the closure mapped over them
LoadCapped(b, s2, gen, cap) ==
    LoadResult(s2, gen, cap,
               Instances(b, cap.positions, 1, Len(cap.positions), cap.rng))

\* `load` once the points are generated, the generator being in state s2
LoadGenerated(b, s2, gen) ==
    IF gen.panicked THEN LoadPanic("panic_image", MeshVaoObjects)
    ELSE LoadCapped(b, s2, gen, CapPositions(gen.points, b.num_limit, s2))

\* `load` from ElementMeshVAO::new_from_mesh on
LoadChecked(b, seed) ==
    IF ~check_consitency(b.model[1]) THEN LoadPanic("panic_mesh", 0)
    ELSE LET s1 == RngNext(StdRngSeedFromU64(seed))
             s2 == RngNext(s1)
         IN  LoadGenerated(b, s2,
                 generate_points_on_distribution(
                     LoadDistribution(b, s1), <<0, SCENE_SIZE, 0, SCENE_SIZE>>, s2))

\* a plausible slip: the mesh is uploaded before the configuration is checked
LoadMeshFirst(b, seed) ==
    IF b.model = None THEN LoadPanic("panic_config", 0)
    ELSE IF MissingConfig(b)
         THEN LoadPanic("panic_config",
                        IF check_consitency(b.model[1]) THEN MeshVaoObjects ELSE 0)
         ELSE LoadChecked(b, seed)

\* ShrubEntitiesBuilder::load
Load(b, seed) ==
    IF MissingConfig(b) THEN LoadPanic("panic_config", 0)
    ELSE LoadChecked(b, seed)

(***************************************************************************)
(* Initial values of the variable groups.                                  *)
(***************************************************************************)
Seeds == 0 .. MaxSeed

LoadIdle ==
    /\ builder = None /\ phase = "idle" /\ load_seed = None
    /\ loaded = None /\ reloaded = None /\ gl_objects = 0

PointsIdle == gp_in = None /\ gp_out = None /\ gp_again = None

PureIdle == q = None /\ r = None

SceneIdle ==
    assets = None /\ scene_seed = None /\ scene = None /\ scene_again = None

\* main before event_loop.run: the context is created, nothing else is
LoopIdle ==
    /\ not_current_gl_context = Some("context") /\ state = None
    /\ renderer = None /\ frame = None /\ gpu = <<>> /\ nav = <<>>
    /\ loop_status = "running"

(***************************************************************************)
(* Spec: a ShrubEntitiesBuilder is created, configured by its setters in   *)
(* any order, and loaded; the same configuration is then loaded a second   *)
(* time with the same seed.                                                *)
(***************************************************************************)
\* base maps: square RGBA images, the k-th with its own green and blue
\* channels
BaseMapOf(k) ==
    [width |-> 2, height |-> 2,
     px |-> [c \in {0, 1} \X {0, 1} |->
                <<64 * (c[1] + 1),
                  (k * 97 + 255 * c[2] + 100 * (1 - c[2]) * c[1]) % 256,
                  (k * 61 + 128 * c[1]) % 256,
                  255>>]]

BaseMap == BaseMapOf(0)

DensityArgs == {0, 2 * FP, 50 * FP}

LimitArgs == {0, 5, 12}

HeightMaps == {Constant(15), Quadrants(75, 75, <<0, 5, 10, 20>>)}

Models == {MeshQuad, MeshBadIndex}

ScaleRanges == {<<15, 30>>}

ZScaleRanges == {<<4, 12>>}

\* ShrubEntitiesBuilder::new
BuilderNew ==
    [density |-> 0, num_limit |-> USIZE_MAX, height_map |-> None,
     model |-> None, z_scale_range |-> <<1 * FP, 1 * FP>>,
     scale_range |-> <<1 * FP, 1 * FP>>, texture |-> None, shader |-> None,
     bushiness |-> None]

New ==
    /\ phase = "idle"
    /\ builder' = Some(BuilderNew)
    /\ phase' = "building"
    /\ UNCHANGED <<ambient, load_seed, loaded, reloaded, gl_objects,
                   pointVars, pureVars, sceneVars, loopVars>>

\* a setter: self.field = value; self
Setter(field, value) ==
    /\ phase = "building"
    /\ builder' = Some([builder[1] EXCEPT ![field] = value])
    /\ UNCHANGED <<ambient, phase, load_seed, loaded, reloaded, gl_objects,
                   pointVars, pureVars, sceneVars, loopVars>>

with_density == \E d \in DensityArgs : Setter("density", d)

with_entitiy_limit == \E k \in LimitArgs : Setter("num_limit", k)

on_height_map == \E h \in HeightMaps : Setter("height_map", Some(h))

with_bushiness == Setter("bushiness", Some(ImageNoiseFnWrapper(BaseMap, 2)))

with_model == \E m \in Models : Setter("model", Some(m))

with_z_scale_range == \E zr \in ZScaleRanges : Setter("z_scale_range", zr)

with_scale_range == \E sr \in ScaleRanges : Setter("scale_range", sr)

with_texture == Setter("texture", Some("texture"))

with_shader == Setter("shader", Some("shader"))

\* builder.load(seed); a panic ends the process
DoLoad ==
    /\ phase = "building"
    /\ \E seed \in Seeds :
          \E res \in {Load(builder[1], seed)} :
              /\ load_seed' = Some(seed)
              /\ loaded' = Some(res)
              /\ gl_objects' = gl_objects + res.gl_created
              /\ phase' = IF res.status = "ok" THEN "loaded" ELSE "panicked"
    /\ ambient' = (ambient + 1) % (MaxAmbient + 1)
    /\ UNCHANGED <<builder, reloaded, pointVars, pureVars, sceneVars, loopVars>>

\* an equal builder is loaded again with the same seed
DoLoadAgain ==
    /\ phase = "loaded"
    /\ \E res \in {Load(builder[1], load_seed[1])} :
           /\ reloaded' = Some(res)
           /\ gl_objects' = gl_objects + res.gl_created
    /\ phase' = "reloaded"
    /\ ambient' = (ambient + 1) % (MaxAmbient + 1)
    /\ UNCHANGED <<builder, load_seed, loaded, pointVars, pureVars, sceneVars, loopVars>>

Init ==
    /\ ambient = 0
    /\ LoadIdle /\ PointsIdle /\ PureIdle /\ SceneIdle /\ LoopIdle

Next ==
    \/ New
    \/ with_density
    \/ with_entitiy_limit
    \/ on_height_map
    \/ with_bushiness
    \/ with_model
    \/ with_z_scale_range
    \/ with_scale_range
    \/ with_texture
    \/ with_shader
    \/ DoLoad
    \/ DoLoadAgain

Spec == Init /\ [][Next]_vars

(***************************************************************************)
(* SpecPoints: generate_points_on_distribution called on arbitrary         *)
(* arguments, and called a second time on the same arguments later in the  *)
(* life of the process.                                                    *)
(***************************************************************************)
\* values of the density field per quadrant
DensityVals == {-5, 0, 5, 15}

PointRects == {<<0, 2 * FP, 0, 2 * FP>>, <<-1 * FP, 3 * FP, 1 * FP, 3 * FP>>}

PointFields(rect) ==
    {Quadrants((rect[1] + rect[2]) \div 2, (rect[3] + rect[4]) \div 2, v) :
        v \in [1 .. 4 -> DensityVals]}

GenPoints ==
    /\ gp_in = None
    /\ \E rect \in PointRects, seed \in Seeds :
         \E field \in PointFields(rect) :
            /\ gp_in' = Some([distribution |-> field, rect |-> rect, seed |-> seed])
            /\ gp_out' = Some(generate_points_on_distribution(field, rect, seed))
    /\ ambient' = (ambient + 1) % (MaxAmbient + 1)
    /\ UNCHANGED <<gp_again, loadVars, pureVars, sceneVars, loopVars>>

GenPointsAgain ==
    /\ gp_in # None /\ gp_again = None
    /\ gp_again' = Some(generate_points_on_distribution(
                            gp_in[1].distribution, gp_in[1].rect, gp_in[1].seed))
    /\ ambient' = (ambient + 1) % (MaxAmbient + 1)
    /\ UNCHANGED <<gp_in, gp_out, loadVars, pureVars, sceneVars, loopVars>>

InitPoints ==
    /\ ambient = 0
    /\ LoadIdle /\ PointsIdle /\ PureIdle /\ SceneIdle /\ LoopIdle

NextPoints == GenPoints \/ GenPointsAgain

SpecPoints == InitPoints /\ [][NextPoints]_vars

(***************************************************************************)
(* SpecPure: the pure functions of the pipeline applied to arguments drawn *)
(* from bounded sets.                                                      *)
(***************************************************************************)
\* images are up to MaxImageDim pixels wide and high
MaxImageDim == 2

PureDensities == {0, 1 * FP, 2 * FP, 5 * FP, 30 * FP, 50 * FP}

\* pixel (c, r) of a test image carries its own coordinates
TestImage(w, h) ==
    [width |-> w, height |-> h,
     px |-> [c \in (0 .. w - 1) \X (0 .. h - 1) |->
                <<10 * c[1] + c[2], 100 + 10 * c[1] + c[2],
                  200 + 10 * c[1] + c[2], 255>>]]

\* world coordinates: negative, inside, on and beyond SCENE_SIZE
WorldCoords == {-1 * FP, 0, SCENE_SIZE \div 2, SCENE_SIZE - 1, SCENE_SIZE,
                SCENE_SIZE + 1 * FP, 2 * SCENE_SIZE}

TransformPoints == {[x |-> 2 * FP, y |-> 3 * FP], [x |-> 0, y |-> 0],
                    [x |-> -15, y |-> 7 * FP]}

TransformAngles == {0, 78, QuarterTurn, 2 * QuarterTurn, 500}

TransformScales == {1 * FP, 5, 2 * FP}

TransformZScales == {1 * FP, 4, 12}

\* probability_distribution(density, _).get(_) where the noise has value v
EvalDistribution ==
    /\ q = None
    /\ \E density \in PureDensities, v \in -1 * FP .. 1 * FP :
          /\ q' = Some([fn |-> "probability_distribution",
                        density |-> density, v |-> v])
          /\ r' = Some([value |-> DistributionAt(density, v)])
    /\ UNCHANGED <<ambient, loadVars, pointVars, sceneVars, loopVars>>

\* ImageNoiseFnWrapper::<CHANNEL>::get([px, py])
SampleImage ==
    /\ q = None
    /\ \E w \in 1 .. MaxImageDim, h \in 1 .. MaxImageDim,
          channel \in 1 .. 3, px \in WorldCoords, py \in WorldCoords :
          /\ q' = Some([fn |-> "image_get", img |-> TestImage(w, h),
                        channel |-> channel, px |-> px, py |-> py])
          /\ r' = Some([lookup |-> ImageLookup(TestImage(w, h), px, py),
                        panicked |-> ImagePanics(TestImage(w, h), px, py),
                        value |-> ImageGet(TestImage(w, h), channel, px, py)])
    /\ UNCHANGED <<ambient, loadVars, pointVars, sceneVars, loopVars>>

\* the instance transform of `load` for one point
BuildTransform ==
    /\ q = None
    /\ \E height_map \in HeightMaps, p \in TransformPoints,
          a \in TransformAngles, sc \in TransformScales,
          z \in TransformZScales :
          /\ q' = Some([fn |-> "transform", height_map |-> height_map, p |-> p,
                        rotation_angle |-> a, scale |-> sc, z_scale |-> z])
          /\ r' = Some([mat |-> InstanceTransform(height_map, p, a, z, sc)])
    /\ UNCHANGED <<ambient, loadVars, pointVars, sceneVars, loopVars>>

\* bytes of the bushiness channel
ChannelBytes == {0, 1, 64, 128, 200, 254, 255}

\* values of the density field before the modulation, the positive ones
\* from half a unit up (a product below half the resolution rounds to 0)
FieldValues == {-24 * FP, -5, 0, 5, 1 * FP, 2 * FP, 26 * FP}

\* Multiply(distr, bushiness).get(_) where the channel of the pixel is
\* `byte` and distr has value `value`
EvalBushiness ==
    /\ q = None
    /\ \E byte \in ChannelBytes, value \in FieldValues :
          \E channel \in {RoundDiv(byte * FP, 255)} :
             /\ q' = Some([fn |-> "bushiness", byte |-> byte,
                           channel |-> channel, value |-> value])
             /\ r' = Some([factor |-> Get(BushinessFactor(Constant(channel)), 0, 0),
                           modulated |-> Get(Multiply(Constant(value),
                                                 BushinessFactor(Constant(channel))),
                                             0, 0)])
    /\ UNCHANGED <<ambient, loadVars, pointVars, sceneVars, loopVars>>

\* The camera of a Scene (scene.rs).  Positions are in 1/1000, the elapsed
\* time t in seconds, angles in 1/100 radian.
\* the vector `bob` that eye_position computes:
\* (0.1 sin(0.32 t + 1), 0.03 sin(0.33 t + 2), 0.05 sin(0.34 t + 3))
EyeBob(t) ==
    <<(100 * Sin(32 * t + 100)) \div FP,
      (30 * Sin(33 * t + 200)) \div FP,
      (50 * Sin(34 * t + 300)) \div FP>>

\* glm::vec3(1.0, 1.0, 2.0)
EyeBase == <<1000, 1000, 2000>>

\* Scene::eye_position at t seconds after start_time: `bob` is computed
\* and not used, the value of the function is `base`
eye_position(t) == LET bob == EyeBob(t) IN EyeBase

\* Scene::look_at
look_at == <<3500, 3500, 300>>

\* seconds elapsed since the Scene was created
ElapsedTimes == {0, 1, 2, 5, 10, 60}

\* scene.eye_position() and scene.look_at(), t seconds after Scene::create
QueryCamera ==
    /\ q = None
    /\ \E t \in ElapsedTimes :
          /\ q' = Some([fn |-> "camera", t |-> t])
          /\ r' = Some([eye |-> eye_position(t), target |-> look_at])
    /\ UNCHANGED <<ambient, loadVars, pointVars, sceneVars, loopVars>>

\* bound on the number of quads per side
MaxQuads == 3

\* Mesh::quad_mesh(n), and check_consitency of the result
QuadMesh ==
    /\ q = None
    /\ \E n \in 0 .. MaxQuads :
          \E mesh \in {quad_mesh(n)} :
             /\ q' = Some([fn |-> "quad_mesh", n |-> n])
             /\ r' = Some([mesh |-> mesh, ok |-> check_consitency(mesh)])
    /\ UNCHANGED <<ambient, loadVars, pointVars, sceneVars, loopVars>>

\* lengths of the attribute vectors and index lists of the meshes tried
MeshPositionLens == {0, 3, 4, 6, 12}

MeshNormalLens == {0, 3, 5, 6, 12}

MeshUvLens == {0, 2, 3, 4, 8}

MeshIndexLists == {<<>>, <<0, 1>>, <<0, 0, 0>>, <<0, 1, 1>>, <<0, 1, 2>>,
                   <<1, 0, 3>>, <<0, 1, 2, 0, 2, 3>>, <<0, 1, 2, 4, 2, 3>>}

\* ElementMeshVAO::new_from_mesh(&mesh)
NewFromMesh ==
    /\ q = None
    /\ \E positions \in MeshPositionLens, normals \in MeshNormalLens,
          uvs \in MeshUvLens, indices \in MeshIndexLists :
          \E mesh \in {[positions |-> positions, normals |-> normals,
                        uvs |-> uvs, indices |-> indices]} :
             /\ q' = Some([fn |-> "new_from_mesh", mesh |-> mesh])
             /\ r' = Some(new_from_mesh(mesh))
    /\ UNCHANGED <<ambient, loadVars, pointVars, sceneVars, loopVars>>

InitPure ==
    /\ ambient = 0
    /\ LoadIdle /\ PointsIdle /\ PureIdle /\ SceneIdle /\ LoopIdle

NextPure ==
    \/ EvalDistribution \/ SampleImage \/ BuildTransform \/ EvalBushiness
    \/ NewFromMesh \/ QueryCamera \/ QuadMesh

SpecPure == InitPure /\ [][NextPure]_vars

(***************************************************************************)
(* Scene::create (scene.rs) and SpecScene: a scene is created for a seed,  *)
(* and created a second time for the same seed from the same Assets.       *)
(***************************************************************************)
\* terrain::height_map(base, seed)
height_map(base, seed) ==
    LET rng0 == SmallRngSeedFromU64(seed)
        s1 == RngNext(rng0)
        s2 == RngNext(s1)
        rocks == ScaleBias(FbmNew(s1), 8, 0)
        height == ScaleBias(FbmNew(s2), 3, 3)
        base_height == ScaleBias(Power(ImageNoiseFnWrapper(base, 1), 2 * FP),
                                 2 * FP, 0)
    IN  Add(base_height, Add(rocks, height))

\* the four builders Scene::create configures
SaplingsBuilder(a, hm) ==
    [BuilderNew EXCEPT !.density = 50 * FP, !.height_map = Some(hm),
        !.bushiness = Some(ImageNoiseFnWrapper(a.base_map, 2)),
        !.texture = Some("sapling_tex"), !.model = Some(MeshQuad),
        !.shader = Some("foliage_shader"), !.z_scale_range = <<4, 12>>]

BushesBuilder(a, hm) ==
    [BuilderNew EXCEPT !.density = 30 * FP, !.height_map = Some(hm),
        !.texture = Some("bush_tex"), !.model = Some(MeshQuad),
        !.shader = Some("foliage_shader"), !.z_scale_range = <<9, 10>>]

ShrubsBuilder(a, hm) ==
    [BuilderNew EXCEPT !.density = 5 * FP, !.height_map = Some(hm),
        !.texture = Some("shrub_side_tex"), !.model = Some(MeshQuad),
        !.shader = Some("foliage_shader"),
        !.bushiness = Some(ImageNoiseFnWrapper(a.base_map, 2)),
        !.z_scale_range = <<7, 10>>, !.scale_range = <<15, 30>>]

TreesBuilder(a, hm) ==
    [BuilderNew EXCEPT !.density = 1 * FP, !.num_limit = 60,
        !.height_map = Some(hm),
        !.texture = Some("bark_tex"), !.model = Some(MeshQuad),
        !.shader = Some("foliage_shader"),
        !.bushiness = Some(ImageNoiseFnWrapper(a.base_map, 3)),
        !.scale_range = <<5, 10>>]

\* a plausible slip: the categories loaded in the order of the entity list,
\* the trees first
SceneCreateTreesFirst(seed, a, now) ==
    LET rng0 == SmallRngSeedFromU64(seed)
        s1 == RngNext(rng0)
        s2 == RngNext(s1)
        s3 == RngNext(s2)
        s4 == RngNext(s3)
        s5 == RngNext(s4)
        s6 == RngNext(s5)
        s7 == RngNext(s6)
        hm == height_map(a.base_map, s1)
    IN  [sub_seeds |-> <<s1, s2, s3, s4, s5, s6, s7>>,
         saplings |-> Load(SaplingsBuilder(a, hm), s5),
         bushes |-> Load(BushesBuilder(a, hm), s6),
         shrubs |-> Load(ShrubsBuilder(a, hm), s7),
         trees |-> Load(TreesBuilder(a, hm), s4),
         entities |-> <<"trees", "saplings", "bushes", "shrubs",
                        "blueberry_bushes", "ground_entity">>,
         start_time |-> now]

\* a plausible slip: the entity list in the order of generation
SceneCreateGenerationOrder(seed, a, now) ==
    LET rng0 == SmallRngSeedFromU64(seed)
        s1 == RngNext(rng0)
        s2 == RngNext(s1)
        s3 == RngNext(s2)
        s4 == RngNext(s3)
        s5 == RngNext(s4)
        s6 == RngNext(s5)
        s7 == RngNext(s6)
        hm == height_map(a.base_map, s1)
    IN  [sub_seeds |-> <<s1, s2, s3, s4, s5, s6, s7>>,
         saplings |-> Load(SaplingsBuilder(a, hm), s4),
         bushes |-> Load(BushesBuilder(a, hm), s5),
         shrubs |-> Load(ShrubsBuilder(a, hm), s6),
         trees |-> Load(TreesBuilder(a, hm), s7),
         entities |-> <<"ground_entity", "blueberry_bushes", "saplings",
                        "bushes", "shrubs", "trees">>,
         start_time |-> now]

\* Scene::create(seed, assets) at time `now`
SceneCreate(seed, a, now) ==
    LET rng0 == SmallRngSeedFromU64(seed)
        s1 == RngNext(rng0)
        s2 == RngNext(s1)
        s3 == RngNext(s2)
        s4 == RngNext(s3)
        s5 == RngNext(s4)
        s6 == RngNext(s5)
        s7 == RngNext(s6)
        hm == height_map(a.base_map, s1)
    IN  [sub_seeds |-> <<s1, s2, s3, s4, s5, s6, s7>>,
         saplings |-> Load(SaplingsBuilder(a, hm), s4),
         bushes |-> Load(BushesBuilder(a, hm), s5),
         shrubs |-> Load(ShrubsBuilder(a, hm), s6),
         trees |-> Load(TreesBuilder(a, hm), s7),
         entities |-> <<"trees", "saplings", "bushes", "shrubs",
                        "blueberry_bushes", "ground_entity">>,
         start_time |-> now]

\* bound on the base maps tried
MaxBaseMap == 7

\* Assets::load
LoadAssets ==
    /\ assets = None
    /\ \E k \in 0 .. MaxBaseMap : assets' = Some([base_map |-> BaseMapOf(k)])
    /\ ambient' = (ambient + 1) % (MaxAmbient + 1)
    /\ UNCHANGED <<loadVars, pointVars, pureVars, scene_seed, scene, scene_again,
                   loopVars>>

\* the passing of time
Tick ==
    /\ scene_again = None
    /\ ambient' = (ambient + 1) % (MaxAmbient + 1)
    /\ UNCHANGED <<loadVars, pointVars, pureVars, sceneVars, loopVars>>

CreateScene ==
    /\ assets # None /\ scene = None
    /\ \E seed \in Seeds :
          /\ scene_seed' = Some(seed)
          /\ scene' = Some(SceneCreate(seed, assets[1], ambient))
    /\ UNCHANGED <<ambient, assets, scene_again, loadVars, pointVars, pureVars,
                   loopVars>>

CreateSceneAgain ==
    /\ scene # None /\ scene_again = None
    /\ scene_again' = Some(SceneCreate(scene_seed[1], assets[1], ambient))
    /\ UNCHANGED <<ambient, assets, scene_seed, scene, loadVars, pointVars,
                   pureVars, loopVars>>

InitScene ==
    /\ ambient = 0
    /\ LoadIdle /\ PointsIdle /\ PureIdle /\ SceneIdle /\ LoopIdle

NextScene == LoadAssets \/ Tick \/ CreateScene \/ CreateSceneAgain

SpecScene == InitScene /\ [][NextScene]_vars

(***************************************************************************)
(* The event loop of main (main.rs) and SpecLoop.  Every event is handled  *)
(* by one call of the closure given to event_loop.run, which returns       *)
(* before the next event is delivered.  The Renderer that main.rs drives   *)
(* (a current seed, the Scene built for it, next_scene, prev_scene) is not *)
(* part of the sources; it is modelled from the specification, on top of   *)
(* Scene::create, and the sources decide which GPU objects a Scene owns    *)
(* and what dropping it deletes.                                           *)
(***************************************************************************)
\* bound on the seed steps of one run
MaxBuilds == 2

\* the two Texture::from_noise of TerrainEntity::ground / ::bushes
TerrainTextures == 1 + 1

\* the VAO a ShrubEntities owns: its id and the buffers in vao.vbos
VaoOf(load) ==
    IF load.status = "ok" THEN [ids |-> 1, vbos |-> load.gl_created - 1]
    ELSE [ids |-> 0, vbos |-> 0]

\* GPU objects allocated while Scene::create runs and owned by the Scene
SceneAlloc(sc) ==
    [vaos |-> VaoOf(sc.trees).ids + VaoOf(sc.saplings).ids
              + VaoOf(sc.bushes).ids + VaoOf(sc.shrubs).ids,
     buffers |-> VaoOf(sc.trees).vbos + VaoOf(sc.saplings).vbos
                 + VaoOf(sc.bushes).vbos + VaoOf(sc.shrubs).vbos,
     textures |-> 2 * TerrainTextures]

\* Drop for VAO: DeleteBuffers(vbos.len(), ..); DeleteVertexArrays(1, ..)
DropVAO(live, vao) ==
    [live EXCEPT !.vaos = @ - vao.ids, !.buffers = @ - vao.vbos]

\* a Texture going out of scope: the struct has no Drop, its id is forgotten
DropTexture(live) == live

\* a TerrainEntity going out of scope: displacement and variant are the
\* last references to their textures, the quad VAO belongs to the Assets
DropTerrainEntity(live) == DropTexture(DropTexture(live))

\* the entities of a Scene going out of scope, from the i-th on
RECURSIVE DropEntities(_, _, _)
DropEntities(live, sc, i) ==
    IF i > Len(sc.entities) THEN live
    ELSE IF sc.entities[i] \in {"blueberry_bushes", "ground_entity"}
    THEN DropEntities(DropTerrainEntity(live), sc, i + 1)
    ELSE DropEntities(DropVAO(live, VaoOf(sc[sc.entities[i]])), sc, i + 1)

\* the Scene going out of scope
DropScene(live, sc) == DropEntities(live, sc, 1)

\* the seed after / before s, a seed being an unsigned integer of fixed width
NextSeed(s) == (s + 1) % (MaxSeed + 1)

PrevSeed(s) == (s + MaxSeed) % (MaxSeed + 1)

\* Renderer::new: the viewport's aspect ratio, the first seed and its Scene
RendererNew(seed, a, now) ==
    [seed |-> seed, scene |-> SceneCreate(seed, a, now), aspect |-> <<4, 3>>]

\* a plausible slip: the seed is stepped and the Scene is kept
next_scene_keeps_scene(rd, a, now) == [rd EXCEPT !.seed = NextSeed(@)]

\* Renderer::next_scene: the Scene of the next seed, built from scratch
next_scene(rd, a, now) ==
    [rd EXCEPT !.seed = NextSeed(@),
               !.scene = SceneCreate(NextSeed(rd.seed), a, now)]

\* a plausible slip: the seed does not go below zero
prev_scene_saturating(rd, a, now) ==
    [rd EXCEPT !.seed = Max(@, 1) - 1,
               !.scene = SceneCreate(Max(rd.seed, 1) - 1, a, now)]

\* Renderer::prev_scene: the Scene of the previous seed, built from scratch
prev_scene(rd, a, now) ==
    [rd EXCEPT !.seed = PrevSeed(@),
               !.scene = SceneCreate(PrevSeed(rd.seed), a, now)]

\* Renderer::resize
RendererResize(rd, width, height) == [rd EXCEPT !.aspect = <<width, height>>]

\* Renderer::draw: the entities of the current Scene, in their order
RendererDraw(rd) ==
    [seed |-> rd.seed, entities |-> rd.scene.entities,
     sub_seeds |-> rd.scene.sub_seeds,
     counts |-> [c \in {"trees", "saplings", "bushes", "shrubs"} |->
                    rd.scene[c].instance_count]]

\* window sizes delivered by WindowEvent::Resized
WindowWidths == {0, 2}

WindowHeights == {0, 1}

\* the renderer's Scene is replaced by that of rd: the new Scene is built,
\* then the old one goes out of scope
ReplaceScene(key, rd) ==
    /\ renderer' = Some(rd)
    /\ gpu' = Append([gpu EXCEPT ![Len(gpu)] = DropScene(@, renderer[1].scene)],
                     SceneAlloc(rd.scene))
    /\ nav' = (IF nav = <<>> THEN <<>> ELSE <<nav[Len(nav)]>>)
              \o <<[key |-> key, seed |-> renderer[1].seed,
                    scene |-> renderer[1].scene]>>
    /\ ambient' = (ambient + 1) % (MaxAmbient + 1)
    /\ UNCHANGED <<not_current_gl_context, state, frame, loop_status,
                   assets, scene_seed, scene, scene_again,
                   loadVars, pointVars, pureVars>>

\* the (gl_context, gl_surface, window) triple that Resumed stores in
\* `state`; of the surface the model keeps its size, that of the new window
StateTriple ==
    [gl_context |-> "context", gl_surface |-> <<4, 3>>, window |-> "window"]

\* gl_surface.resize(gl_context, width, height) on the triple in `state`
SurfaceResize(st, width, height) == [st EXCEPT !.gl_surface = <<width, height>>]

\* a plausible slip: the size is handed on without the test for zero
ResizedUnchecked ==
    /\ loop_status = "running"
    /\ \E width \in WindowWidths, height \in WindowHeights :
          IF state # None
          THEN /\ state' = Some(SurfaceResize(state[1], width, height))
               /\ renderer' = Some(RendererResize(renderer[1], width, height))
          ELSE UNCHANGED <<state, renderer>>
    /\ UNCHANGED <<ambient, not_current_gl_context, frame, gpu, nav,
                   loop_status, sceneVars, loadVars, pointVars, pureVars>>

\* a plausible slip: the Renderer is not created when the state is set
ResumedWithoutRenderer ==
    /\ loop_status = "running"
    /\ not_current_gl_context # None
    /\ not_current_gl_context' = None
    /\ state' = Some(StateTriple)
    /\ UNCHANGED <<ambient, renderer, gpu, assets, loop_status, frame, nav,
                   scene_seed, scene, scene_again, loadVars, pointVars, pureVars>>

\* a plausible slip: Resumed sets up the surface and the Renderer anew
\* whether or not a context is left to take
ResumedAnew ==
    /\ loop_status = "running"
    /\ not_current_gl_context' = None
    /\ state' = Some(StateTriple)
    /\ assets' = Some([base_map |-> BaseMap])
    /\ \E seed \in Seeds :
          \E rd \in {RendererNew(seed, [base_map |-> BaseMap], ambient)} :
              /\ renderer' = Some(rd)
              /\ gpu' = <<SceneAlloc(rd.scene)>>
    /\ ambient' = (ambient + 1) % (MaxAmbient + 1)
    /\ UNCHANGED <<loop_status, frame, nav, scene_seed, scene, scene_again,
                   loadVars, pointVars, pureVars>>

\* Event::Resumed
Resumed ==
    /\ loop_status = "running"
    /\ IF not_current_gl_context = None
       THEN \* not_current_gl_context.take().unwrap()
            /\ loop_status' = "panicked"
            /\ UNCHANGED <<ambient, not_current_gl_context, state, renderer,
                           gpu, assets>>
       ELSE /\ not_current_gl_context' = None
            /\ state' = Some(StateTriple)
            /\ assets' = Some([base_map |-> BaseMap])
            /\ \E seed \in Seeds :
                  \E rd \in {RendererNew(seed, [base_map |-> BaseMap], ambient)} :
                      /\ renderer' = Some(rd)
                      /\ gpu' = <<SceneAlloc(rd.scene)>>
            /\ ambient' = (ambient + 1) % (MaxAmbient + 1)
            /\ UNCHANGED loop_status
    /\ UNCHANGED <<frame, nav, scene_seed, scene, scene_again,
                   loadVars, pointVars, pureVars>>

\* WindowEvent::Resized(size)
Resized ==
    /\ loop_status = "running"
    /\ \E width \in WindowWidths, height \in WindowHeights :
          IF width # 0 /\ height # 0 /\ state # None
          THEN /\ state' = Some(SurfaceResize(state[1], width, height))
               /\ renderer' = Some(RendererResize(renderer[1], width, height))
          ELSE UNCHANGED <<state, renderer>>
    /\ UNCHANGED <<ambient, not_current_gl_context, frame, gpu, nav,
                   loop_status, sceneVars, loadVars, pointVars, pureVars>>

\* WindowEvent::CloseRequested, or Escape: window_target.exit()
CloseRequested ==
    /\ loop_status = "running"
    /\ loop_status' = "exited"
    /\ UNCHANGED <<ambient, not_current_gl_context, state, renderer, frame,
                   gpu, nav, sceneVars, loadVars, pointVars, pureVars>>

\* WindowEvent::RedrawRequested
RedrawRequested ==
    /\ loop_status = "running"
    /\ IF state # None
       THEN frame' = Some(RendererDraw(renderer[1]))
       ELSE UNCHANGED frame
    /\ UNCHANGED <<ambient, not_current_gl_context, state, renderer, gpu, nav,
                   loop_status, sceneVars, loadVars, pointVars, pureVars>>

\* ArrowRight released
ArrowRight ==
    /\ loop_status = "running"
    /\ IF renderer = None
       THEN \* let Some(renderer) = renderer.as_mut() else { break 'block }
            UNCHANGED vars
       ELSE /\ Len(gpu) <= MaxBuilds
            /\ \E rd \in {next_scene(renderer[1], assets[1], ambient)} :
                  ReplaceScene("right", rd)

\* ArrowLeft released
ArrowLeft ==
    /\ loop_status = "running"
    /\ IF renderer = None
       THEN \* let Some(renderer) = renderer.as_mut() else { break 'block }
            UNCHANGED vars
       ELSE /\ Len(gpu) <= MaxBuilds
            /\ \E rd \in {prev_scene(renderer[1], assets[1], ambient)} :
                  ReplaceScene("left", rd)

InitLoop ==
    /\ ambient = 0
    /\ LoadIdle /\ PointsIdle /\ PureIdle /\ SceneIdle /\ LoopIdle

NextLoop ==
    \/ Resumed
    \/ Resized
    \/ CloseRequested
    \/ RedrawRequested
    \/ ArrowRight
    \/ ArrowLeft

SpecLoop == InitLoop /\ [][NextLoop]_vars

(***************************************************************************)
(* Properties of generate_points_on_distribution (SpecPoints).             *)
(***************************************************************************)
RECURSIVE RngAdvance(_, _)
RngAdvance(s, n) ==
    IF n = 0 THEN s
    ELSE IF n = 1 THEN RngNext(s)
    ELSE LET half == RngAdvance(s, n \div 2)
         IN  \* (the test makes TLC evaluate the first half first)
             IF half < 0 THEN half ELSE RngAdvance(half, n - n \div 2)

\* the expected count of cell (x, y), taken at the centre of that cell
ExpectedCount(distribution, rect, x, y) ==
    LET dx == Div(rect[2] - rect[1], GridRes * FP)
        dy == Div(rect[4] - rect[3], GridRes * FP)
    IN  Mul(Get(distribution, rect[1] + dx * x + RoundDiv(dx, 2),
                              rect[3] + dy * y + RoundDiv(dy, 2)),
            Mul(dx, dy))

\* p lies in the half-open cell (x, y) of the grid over rect
InCell(p, rect, x, y) ==
    /\ CellFx(rect, x) <= p.x /\ p.x < CellFx(rect, x) + CellDx(rect)
    /\ CellFy(rect, y) <= p.y /\ p.y < CellFy(rect, y) + CellDy(rect)

C5_NoPointInsideZeroCell ==
    gp_out # None =>
        \A x \in 0 .. GridRes - 1, y \in 0 .. GridRes - 1 :
            ExpectedCount(gp_in[1].distribution, gp_in[1].rect, x, y) <= 0
                => \A i \in DOMAIN gp_out[1].points :
                       ~InCell(gp_out[1].points[i], gp_in[1].rect, x, y)

\* C5 amended: a cell whose expected count is zero or negative emits no
\* point; every point of the output was emitted for a cell whose expected
\* count is positive.
C5_ZeroCellEmitsNothing ==
    gp_out # None =>
        /\ \A i \in DOMAIN gp_out[1].cells :
              LET c == gp_out[1].cells[i]
              IN  ExpectedCount(gp_in[1].distribution, gp_in[1].rect, c.x, c.y) <= 0
                      => c.pts = <<>>
        /\ gp_out[1].points = ConcatPoints(gp_out[1].cells, 1)

C5_Witness ==
    /\ gp_out # None
    /\ \E i \in DOMAIN gp_out[1].cells :
          ExpectedCount(gp_in[1].distribution, gp_in[1].rect,
                        gp_out[1].cells[i].x, gp_out[1].cells[i].y) <= 0
    /\ Len(gp_out[1].points) >= 3

\* C6: a cell with expected count <= 0 leaves the generator untouched; a
\* cell with expected count > 0 advances it once for the count and twice
\* per emitted point, the x offset drawn before the y offset.
C6_DrawsPerCell ==
    gp_out # None =>
        \A i \in DOMAIN gp_out[1].cells :
            LET c == gp_out[1].cells[i]
                fx == CellFx(gp_in[1].rect, c.x)
                fy == CellFy(gp_in[1].rect, c.y)
            IN  /\ c.density <= 0 => c.rng_after = c.rng_before
                /\ c.density > 0 =>
                      /\ c.rng_after = RngAdvance(c.rng_before, 1 + 2 * Len(c.pts))
                      /\ \A j \in DOMAIN c.pts :
                            /\ c.pts[j].x = fx + MulU(CellDx(gp_in[1].rect),
                                                  RngAdvance(c.rng_before, 2 * j))
                            /\ c.pts[j].y = fy + MulU(CellDy(gp_in[1].rect),
                                                  RngAdvance(c.rng_before, 2 * j + 1))
                /\ i > 1 => c.rng_before = gp_out[1].cells[i - 1].rng_after

C6_Witness ==
    /\ gp_out # None
    /\ \E i, j \in DOMAIN gp_out[1].cells :
          /\ i < j
          /\ gp_out[1].cells[i].density <= 0
          /\ gp_out[1].cells[j].density > 0
          /\ Len(gp_out[1].cells[j].pts) >= 1

\* floor of an expected count L >= 0
FloorOf(L) == L \div FP

\* the sum L + u of the expected count and the draw s reaches the next
\* integer above L once it is rounded to the nearest representable value
SumReachesNext(L, s) ==
    2 * s * FP + RngMod >= 2 * RngMod * ((FloorOf(L) + 1) * FP - L)

\* C14 as stated: a cell with expected count L > 0 emits floor(L) or
\* floor(L) + 1 points, and exactly L points when L is an integer.
C14_IntegerCountIsExact ==
    gp_out # None =>
        \A i \in DOMAIN gp_out[1].cells :
            LET c == gp_out[1].cells[i]
            IN  c.density > 0 =>
                   /\ Len(c.pts) \in {FloorOf(c.density), FloorOf(c.density) + 1}
                   /\ c.density % FP = 0 => Len(c.pts) * FP = c.density

\* C14 amended: a cell with expected count L > 0 emits floor(L) or
\* floor(L) + 1 points, decided by the one draw u made for the count: it
\* emits floor(L) + 1 points exactly when the rounded sum L + u reaches
\* floor(L) + 1, which for an integer L happens for the draws closest to 1.
C14_CountIsFloorOfRoundedSum ==
    gp_out # None =>
        \A i \in DOMAIN gp_out[1].cells :
            LET c == gp_out[1].cells[i]
            IN  c.density > 0 =>
                   /\ Len(c.pts) \in {FloorOf(c.density), FloorOf(c.density) + 1}
                   /\ Len(c.pts) = FloorOf(c.density) + 1
                         <=> SumReachesNext(c.density, RngNext(c.rng_before))

C14_Witness ==
    /\ gp_out # None
    /\ \E i, j \in DOMAIN gp_out[1].cells :
          /\ gp_out[1].cells[i].density > 0
          /\ Len(gp_out[1].cells[i].pts) = FloorOf(gp_out[1].cells[i].density) + 1
          /\ gp_out[1].cells[j].density > 0
          /\ gp_out[1].cells[j].density % FP = 0
          /\ Len(gp_out[1].cells[j].pts) * FP = gp_out[1].cells[j].density

\* the lower corner of cell (x, y): x_min + dx * x, y_min + dy * y
CellLow(rect, x, y) == <<rect[1] + x * CellDx(rect), rect[3] + y * CellDy(rect)>>

\* the upper corner of cell (x, y)
CellHigh(rect, x, y) ==
    <<CellLow(rect, x, y)[1] + CellDx(rect), CellLow(rect, x, y)[2] + CellDy(rect)>>

\* C15 as stated: every point lies in the half-open cell it was drawn for,
\* x in [fx, fx + dx) and y in [fy, fy + dy), and in the half-open domain
\* rectangle [x_min, x_max) x [y_min, y_max).
C15_PointsInsideHalfOpenCell ==
    gp_out # None =>
        \A i \in DOMAIN gp_out[1].cells :
            LET c == gp_out[1].cells[i]
                lo == CellLow(gp_in[1].rect, c.x, c.y)
                hi == CellHigh(gp_in[1].rect, c.x, c.y)
            IN  \A j \in DOMAIN c.pts :
                   /\ lo[1] <= c.pts[j].x /\ c.pts[j].x < hi[1]
                   /\ lo[2] <= c.pts[j].y /\ c.pts[j].y < hi[2]
                   /\ gp_in[1].rect[1] <= c.pts[j].x /\ c.pts[j].x < gp_in[1].rect[2]
                   /\ gp_in[1].rect[3] <= c.pts[j].y /\ c.pts[j].y < gp_in[1].rect[4]

\* C15 amended: every point lies in the closed cell it was drawn for, x in
\* [fx, fx + dx] and y in [fy, fy + dy], the upper edges included, and so
\* in the closed rectangle the grid covers, from (x_min, y_min) to the upper
\* corner of the last cell.
C15_PointsInsideClosedCell ==
    gp_out # None =>
        \A i \in DOMAIN gp_out[1].cells :
            LET c == gp_out[1].cells[i]
                lo == CellLow(gp_in[1].rect, c.x, c.y)
                hi == CellHigh(gp_in[1].rect, c.x, c.y)
                top == CellHigh(gp_in[1].rect, GridRes - 1, GridRes - 1)
            IN  \A j \in DOMAIN c.pts :
                   /\ lo[1] <= c.pts[j].x /\ c.pts[j].x <= hi[1]
                   /\ lo[2] <= c.pts[j].y /\ c.pts[j].y <= hi[2]
                   /\ gp_in[1].rect[1] <= c.pts[j].x /\ c.pts[j].x <= top[1]
                   /\ gp_in[1].rect[3] <= c.pts[j].y /\ c.pts[j].y <= top[2]

\* a cell that is not the first of its row or column emitted a point
\* strictly inside, and some cell emitted a point on its upper x edge
C15_Witness ==
    /\ gp_out # None
    /\ \E i, k \in DOMAIN gp_out[1].cells :
          /\ gp_out[1].cells[i].x > 0 /\ gp_out[1].cells[i].y > 0
          /\ \E j \in DOMAIN gp_out[1].cells[i].pts :
                /\ CellLow(gp_in[1].rect, gp_out[1].cells[i].x,
                           gp_out[1].cells[i].y)[1] < gp_out[1].cells[i].pts[j].x
                /\ gp_out[1].cells[i].pts[j].x
                      < CellHigh(gp_in[1].rect, gp_out[1].cells[i].x,
                                 gp_out[1].cells[i].y)[1]
          /\ \E j \in DOMAIN gp_out[1].cells[k].pts :
                gp_out[1].cells[k].pts[j].x
                    = CellHigh(gp_in[1].rect, gp_out[1].cells[k].x,
                               gp_out[1].cells[k].y)[1]

\* the number of points emitted for the cells before the i-th visited
RECURSIVE PointsBefore(_, _)
PointsBefore(cells, i) ==
    IF i <= 1 THEN 0 ELSE PointsBefore(cells, i - 1) + Len(cells[i - 1].pts)

\* C16: a call that returns has visited every cell of the grid exactly
\* once, the x index in the outer loop and the y index in the inner loop,
\* both ascending; the output holds the points of the cells one cell after
\* the other in that order.
C16_CellsVisitedInOrder ==
    (gp_out # None /\ ~gp_out[1].panicked) =>
        LET cells == gp_out[1].cells
        IN  /\ Len(cells) = GridRes * GridRes
            /\ \A x \in 0 .. GridRes - 1, y \in 0 .. GridRes - 1 :
                  Cardinality({i \in DOMAIN cells :
                                  cells[i].x = x /\ cells[i].y = y}) = 1
            /\ \A i, j \in DOMAIN cells :
                  i < j => \/ cells[i].x < cells[j].x
                           \/ cells[i].x = cells[j].x /\ cells[i].y < cells[j].y
            /\ Len(gp_out[1].points) = PointsBefore(cells, Len(cells) + 1)
            /\ \A i \in DOMAIN cells : \A j \in DOMAIN cells[i].pts :
                  gp_out[1].points[PointsBefore(cells, i) + j] = cells[i].pts[j]

\* cells (0, 1) and (1, 0) both emitted points, those of (0, 1) first
C16_Witness ==
    /\ gp_out # None /\ ~gp_out[1].panicked
    /\ \E i, j \in DOMAIN gp_out[1].cells :
          /\ gp_out[1].cells[i].x = 0 /\ gp_out[1].cells[i].y = 1
          /\ gp_out[1].cells[j].x = 1 /\ gp_out[1].cells[j].y = 0
          /\ Len(gp_out[1].cells[i].pts) > 0
          /\ Len(gp_out[1].cells[j].pts) > 0
          /\ gp_out[1].cells[i].pts # gp_out[1].cells[j].pts
          /\ PointsBefore(gp_out[1].cells, i) < PointsBefore(gp_out[1].cells, j)

(***************************************************************************)
(* Properties of ShrubEntitiesBuilder::load (Spec).                        *)
(***************************************************************************)
Count(seq, e) == Cardinality({i \in DOMAIN seq : seq[i] = e})

\* a is a rearrangement of b
PermutationOf(a, b) ==
    /\ Len(a) = Len(b)
    /\ \A e \in Range(a) \cup Range(b) : Count(a, e) = Count(b, e)

\* every element occurs in a at most as often as in b
SubBag(a, b) == \A e \in Range(a) : Count(a, e) <= Count(b, e)

LoadOk == loaded # None /\ loaded[1].status = "ok"

\* C3: the number of instances is min(raw point count, num_limit): exactly
\* num_limit when the raw count exceeds it, and no point is removed when the
\* raw count is at most num_limit.
C3_InstanceCountIsMin ==
    LoadOk =>
        /\ loaded[1].instance_count
              = Min(Len(loaded[1].raw), builder[1].num_limit)
        /\ Len(loaded[1].raw) <= builder[1].num_limit
              => loaded[1].positions = loaded[1].raw

C3_Witness ==
    /\ LoadOk
    /\ builder[1].num_limit > 0
    /\ Len(loaded[1].raw) > builder[1].num_limit
    /\ loaded[1].instance_count = builder[1].num_limit

\* the boundary of C3: a raw count equal to the limit
C3_WitnessAtLimit ==
    /\ LoadOk
    /\ builder[1].num_limit > 0
    /\ Len(loaded[1].raw) = builder[1].num_limit
    /\ loaded[1].positions = loaded[1].raw

\* C4: when the cap applies, the retained points are the first num_limit
\* elements of a rearrangement of the raw points (none invented, none more
\* often than among the raw points), and loading again with the same seed
\* retains the same points in the same order.
C4_RetainedIsPrefixOfPermutation ==
    /\ (LoadOk /\ Len(loaded[1].raw) > builder[1].num_limit) =>
          /\ PermutationOf(loaded[1].shuffled, loaded[1].raw)
          /\ loaded[1].positions
                = SubSeq(loaded[1].shuffled, 1, builder[1].num_limit)
          /\ SubBag(loaded[1].positions, loaded[1].raw)
    /\ reloaded # None => reloaded[1].positions = loaded[1].positions

C4_Witness ==
    /\ reloaded # None
    /\ builder[1].num_limit >= 5
    /\ Len(loaded[1].raw) > builder[1].num_limit
    /\ loaded[1].shuffled # loaded[1].raw
    /\ loaded[1].positions # SubSeq(loaded[1].raw, 1, builder[1].num_limit)

\* C10: load panics when the height map, the model, the texture or the
\* shader is missing, before it creates a GPU object or generates a point;
\* with all four set it does not panic for this reason.
C10_MissingConfigPanicsFirst ==
    loaded # None =>
        /\ MissingConfig(builder[1]) <=> loaded[1].status = "panic_config"
        /\ loaded[1].status = "panic_config" =>
              /\ phase = "panicked"
              /\ gl_objects = 0
              /\ loaded[1].raw = <<>>
              /\ loaded[1].instances = <<>>

C10_Witness ==
    /\ phase = "panicked"
    /\ loaded[1].status = "panic_config"
    /\ builder[1].model = Some(MeshQuad)
    /\ builder[1].height_map # None
    /\ builder[1].texture # None
    /\ builder[1].shader = None

C10_WitnessAllSet ==
    /\ LoadOk
    /\ ~MissingConfig(builder[1])
    /\ gl_objects = MeshVaoObjects + InstanceVaoObjects
    /\ Len(loaded[1].instances) > 0

\* the state of the category generator after n draws from its seeding
CategoryRng(seed, n) == RngAdvance(StdRngSeedFromU64(seed), n)

\* the number of draws of the shuffle of `load`
ShuffleDraws(res, num_limit) ==
    IF Len(res.raw) > num_limit THEN Len(res.raw) - 1 ELSE 0

\* C21: load consumes the category generator in a fixed order: the seed of
\* the density field, the seed of the point process, the shuffle only when
\* the raw count exceeds the cap, then rotation, z-scale and scale for each
\* retained point in list order.  The raw points are a function of the
\* density field and the two seeds, not of the cap, and a raw count within
\* the cap leaves the generator where the two seeds left it.
C21_RngOrderInLoad ==
    LoadOk =>
        LET res == loaded[1]
            b == builder[1]
            after_seeds == CategoryRng(load_seed[1], 2)
            after_cap == RngAdvance(after_seeds, ShuffleDraws(res, b.num_limit))
        IN  /\ res.rng_points = after_seeds
            /\ res.raw = generate_points_on_distribution(
                             LoadDistribution(b, CategoryRng(load_seed[1], 1)),
                             <<0, SCENE_SIZE, 0, SCENE_SIZE>>, after_seeds).points
            /\ res.rng_cap = after_cap
            /\ Len(res.raw) <= b.num_limit => res.rng_cap = res.rng_points
            /\ \A i \in DOMAIN res.instances :
                  /\ res.instances[i].p = res.positions[i]
                  /\ res.instances[i].rotation_angle
                        = UniformNew(0, Uniform_0_628_High,
                                     RngAdvance(after_cap, 3 * i - 2))
                  /\ res.instances[i].z_scale
                        = UniformNewInclusive(b.z_scale_range[1], b.z_scale_range[2],
                                              RngAdvance(after_cap, 3 * i - 1))
                  /\ res.instances[i].scale
                        = UniformNewInclusive(b.scale_range[1], b.scale_range[2],
                                              RngAdvance(after_cap, 3 * i))
            /\ res.rng = RngAdvance(after_cap, 3 * Len(res.instances))

\* a load whose raw count exceeds the cap: the shuffle drew, and the
\* instances have differing rotations, z-scales and scales
C21_Witness ==
    /\ LoadOk
    /\ builder[1].num_limit >= 5
    /\ Len(loaded[1].raw) > builder[1].num_limit
    /\ loaded[1].rng_cap # loaded[1].rng_points
    /\ builder[1].z_scale_range # builder[1].scale_range
    /\ \E i, j \in DOMAIN loaded[1].instances :
          /\ loaded[1].instances[i].rotation_angle # loaded[1].instances[j].rotation_angle
          /\ loaded[1].instances[i].z_scale # loaded[1].instances[j].z_scale
          /\ loaded[1].instances[i].scale # loaded[1].instances[j].scale

\* a load whose raw count is within the cap: no shuffle
C21_WitnessWithinCap ==
    /\ LoadOk
    /\ builder[1].num_limit = 12
    /\ Len(loaded[1].raw) >= 2
    /\ Len(loaded[1].raw) <= builder[1].num_limit
    /\ loaded[1].rng # loaded[1].rng_cap

\* C22: every instance has a rotation angle in [0, 2 pi) (angles in 1/100
\* radian, 2 pi = 6.2832), a scale in the closed scale range of the builder
\* and a z-scale in its closed z-scale range; with the default ranges
\* (1.0, 1.0) both are exactly 1.
C22_SampledRanges ==
    LoadOk =>
        \A i \in DOMAIN loaded[1].instances :
            LET inst == loaded[1].instances[i]
                b == builder[1]
            IN  /\ 0 <= inst.rotation_angle
                /\ inst.rotation_angle * 100 < 62832
                /\ b.scale_range[1] <= inst.scale
                /\ inst.scale <= b.scale_range[2]
                /\ b.z_scale_range[1] <= inst.z_scale
                /\ inst.z_scale <= b.z_scale_range[2]
                /\ b.scale_range = <<1 * FP, 1 * FP>> => inst.scale = 1 * FP
                /\ b.z_scale_range = <<1 * FP, 1 * FP>> => inst.z_scale = 1 * FP

\* instances of a builder with the default scale range and a configured
\* z-scale range: both ends of the z-scale range and a rotation in the last
\* quarter are sampled
C22_Witness ==
    /\ LoadOk
    /\ builder[1].scale_range = <<1 * FP, 1 * FP>>
    /\ builder[1].z_scale_range[1] < builder[1].z_scale_range[2]
    /\ \E i, j, k \in DOMAIN loaded[1].instances :
          /\ loaded[1].instances[i].z_scale = builder[1].z_scale_range[1]
          /\ loaded[1].instances[j].z_scale = builder[1].z_scale_range[2]
          /\ loaded[1].instances[k].rotation_angle > 3 * QuarterTurn
          /\ loaded[1].instances[k].scale = 1 * FP

\* C26: a builder whose density is 0, the default, yields no raw point and
\* no instance, for every seed, with or without a bushiness channel.
C26_ZeroDensityNoInstances ==
    (LoadOk /\ builder[1].density = 0) =>
        /\ loaded[1].raw = <<>>
        /\ loaded[1].instance_count = 0

(***************************************************************************)
(* Properties of the pure functions (SpecPure).                            *)
(***************************************************************************)
IsQuery(fn) == q # None /\ q[1].fn = fn

\* C7: for a target density d >= 0 and a noise value v in [-1, 1] the field
\* of probability_distribution has a value in [0, d]; v = -1 gives 0 and
\* v = 1 gives d.
C7_DistributionInZeroToDensity ==
    IsQuery("probability_distribution") =>
        /\ 0 <= r[1].value /\ r[1].value <= q[1].density
        /\ q[1].v = -1 * FP => r[1].value = 0
        /\ q[1].v = 1 * FP => r[1].value = q[1].density

\* C8: for every image size and every world coordinate the pixel read by
\* ImageNoiseFnWrapper::get lies inside the image, its indices clamped to
\* the first or last index.
C8_PixelInsideImage ==
    IsQuery("image_get") =>
        /\ ~r[1].panicked
        /\ r[1].lookup.col < q[1].img.width
        /\ r[1].lookup.row < q[1].img.height

Mat3Mul(A, B) ==
    [i \in 1 .. 3 |-> [j \in 1 .. 3 |->
        RoundDiv(A[i][1] * B[1][j] + A[i][2] * B[2][j] + A[i][3] * B[3][j], FP)]]

RotZ3(a) == <<<<Cos(a), -Sin(a), 0>>, <<Sin(a), Cos(a), 0>>, <<0, 0, FP>>>>

Diag3(x, y, z) == <<<<x, 0, 0>>, <<0, y, 0>>, <<0, 0, z>>>>

Linear3(m) == [i \in 1 .. 3 |-> [j \in 1 .. 3 |-> m[i][j]]]

TranslationOf(m) == <<m[1][4], m[2][4], m[3][4]>>

\* C9: the instance transform has translation (x, y, height_map(x, y)),
\* whatever the angle and the scales, and linear part
\* RotZ(a) * diag(s, s, s * z); for the point (2, 3) at height 1.5 with
\* a = 0, s = 1, z = 1 it is the translation by (2, 3, 1.5).
C9_TransformIsTranslateRotateScale ==
    IsQuery("transform") =>
        LET m == r[1].mat
            p == q[1].p
        IN  /\ TranslationOf(m)
                  = <<p.x, p.y, Get(q[1].height_map, p.x, p.y)>>
            /\ Linear3(m)
                  = Mat3Mul(RotZ3(q[1].rotation_angle),
                            Diag3(q[1].scale, q[1].scale,
                                  Mul(q[1].scale, q[1].z_scale)))
            /\ m[4] = <<0, 0, 0, FP>>
            /\ (/\ p = [x |-> 2 * FP, y |-> 3 * FP]
                /\ q[1].height_map = Constant(15)
                /\ q[1].rotation_angle = 0
                /\ q[1].scale = 1 * FP /\ q[1].z_scale = 1 * FP)
               => m = <<<<FP, 0, 0, 2 * FP>>, <<0, FP, 0, 3 * FP>>,
                        <<0, 0, FP, 15>>, <<0, 0, 0, FP>>>>

\* a rotated, anisotropically scaled instance away from the origin
C9_Witness ==
    /\ IsQuery("transform")
    /\ q[1].p = [x |-> 2 * FP, y |-> 3 * FP]
    /\ q[1].rotation_angle = QuarterTurn
    /\ q[1].scale = 2 * FP /\ q[1].z_scale = 4
    /\ r[1].mat = <<<<0, -2 * FP, 0, 2 * FP>>, <<2 * FP, 0, 0, 3 * FP>>,
                    <<0, 0, 8, Get(q[1].height_map, 2 * FP, 3 * FP)>>,
                    <<0, 0, 0, FP>>>>

(***************************************************************************)
(* Properties of Scene::create (SpecScene).                                *)
(***************************************************************************)
Mats(res) == [i \in DOMAIN res.instances |-> res.instances[i].mat]

SameCategory(a, b) ==
    /\ Len(a.raw) = Len(b.raw)
    /\ a.instance_count = b.instance_count
    /\ Mats(a) = Mats(b)

LoadedWith(res, s) ==
    res.status = "ok" => res.rng_points = RngAdvance(StdRngSeedFromU64(s), 2)

\* the sub-seed at position i of the scene generator seeded with `seed`
SubSeedAt(seed, i) == RngAdvance(SmallRngSeedFromU64(seed), i)

\* C17: Scene::create draws seven sub-seeds from the scene generator; the
\* one at position i is the i-th output of the generator seeded with the
\* scene seed, whatever the assets and the other categories; positions 4 to
\* 7 go to the saplings, the bushes, the shrubs and the trees.
C17_SubSeedsByPosition ==
    scene # None =>
        /\ Len(scene[1].sub_seeds) = 7
        /\ \A i \in 1 .. 7 : scene[1].sub_seeds[i] = SubSeedAt(scene_seed[1], i)
        /\ LoadedWith(scene[1].saplings, SubSeedAt(scene_seed[1], 4))
        /\ LoadedWith(scene[1].bushes, SubSeedAt(scene_seed[1], 5))
        /\ LoadedWith(scene[1].shrubs, SubSeedAt(scene_seed[1], 6))
        /\ LoadedWith(scene[1].trees, SubSeedAt(scene_seed[1], 7))

\* a Scene all of whose categories were generated, from sub-seeds that
\* differ from position to position
C17_Witness ==
    /\ scene # None
    /\ scene[1].saplings.status = "ok" /\ scene[1].bushes.status = "ok"
    /\ scene[1].shrubs.status = "ok" /\ scene[1].trees.status = "ok"
    /\ scene[1].saplings.instance_count > 0
    /\ scene[1].trees.instance_count > 0
    /\ \A i, j \in 1 .. 7 : i # j => scene[1].sub_seeds[i] # scene[1].sub_seeds[j]
    /\ assets[1].base_map # BaseMapOf(0)

\* C18: the entity list of a Scene holds six renderables: the trees, the
\* saplings, the bushes, the shrubs, the blueberry-bush layer and, last,
\* the ground, in this order for every seed and every set of assets.
C18_EntityOrder ==
    /\ scene # None =>
          /\ Len(scene[1].entities) = 6
          /\ scene[1].entities[1] = "trees"
          /\ scene[1].entities[2] = "saplings"
          /\ scene[1].entities[3] = "bushes"
          /\ scene[1].entities[4] = "shrubs"
          /\ scene[1].entities[5] = "blueberry_bushes"
          /\ scene[1].entities[6] = "ground_entity"
    /\ scene_again # None => scene_again[1].entities = scene[1].entities

\* two Scenes were built, for a seed other than the first, and the trees,
\* generated last, are listed first
C18_Witness ==
    /\ scene_again # None
    /\ scene_seed[1] = MaxSeed
    /\ scene_again[1].entities[1] = "trees"
    /\ scene_again[1].sub_seeds[7] # scene_again[1].sub_seeds[4]

\* the number of points generated for builder b, summed over the seeds
\* from s on
RECURSIVE TotalRaw(_, _)
TotalRaw(b, s) ==
    IF s > MaxSeed THEN 0 ELSE Len(Load(b, s).raw) + TotalRaw(b, s + 1)

\* d x A in points, for the domain of `load`
TargetCount(density) == Mul(density, Mul(SCENE_SIZE, SCENE_SIZE)) \div FP

\* the tolerance granted to the mean: a quarter of d x A, and one point per
\* cell for the rounding of the counts
CountTolerance(density) == TargetCount(density) \div 4 + GridRes * GridRes

\* C19: for a density field of target density d, not modulated, over the
\* domain of area A, the mean over the seeds of the number of points
\* generated is d x A within the tolerance.
C19_MeanCountIsDensityTimesArea ==
    (LoadOk /\ builder[1].bushiness = None) =>
        LET n == MaxSeed + 1
            total == TotalRaw(builder[1], 0)
            target == TargetCount(builder[1].density)
            tol == CountTolerance(builder[1].density)
        IN  /\ n * (target - tol) <= total
            /\ total <= n * (target + tol)

\* C20: the factor of the modulation is twice the square of the channel
\* plus 0.1: it lies in [0.1, 2.1], is 0.1 for channel 0 and 2.1 for
\* channel 1; a positive density stays positive under the modulation.
C20_BushinessFactorRange ==
    IsQuery("bushiness") =>
        /\ RoundDiv(FP, 10) <= r[1].factor
        /\ r[1].factor <= 2 * FP + RoundDiv(FP, 10)
        /\ q[1].byte = 0 => r[1].factor = RoundDiv(FP, 10)
        /\ q[1].byte = 255 => r[1].factor = 2 * FP + RoundDiv(FP, 10)
        /\ r[1].factor * FP
              = 2 * RoundDiv(q[1].channel * q[1].channel, FP) * FP
                   + RoundDiv(FP, 10) * FP
        /\ q[1].value > 0 => r[1].modulated > 0

\* a positive density under the smallest factor, that of a black pixel
C20_Witness ==
    /\ IsQuery("bushiness")
    /\ q[1].byte = 0
    /\ q[1].value > 0
    /\ r[1].modulated < q[1].value

\* the index of the pixel along an axis of `size` pixels for the world
\* coordinate c: c / SCENE_SIZE * size, truncated and clamped to the axis
ClampedIndex(c, size) == Clamp(F64AsU32(c * size, SCENE_SIZE), 0, size - 1)

\* C23: ImageNoiseFnWrapper::get at (px, py) returns the channel of one
\* pixel of the image divided by 255, a value in [0, 1]; the column of the
\* pixel is the clamped index of py along the image height, its row the
\* clamped index of px along the image width.
C23_SwappedPixelChannel ==
    IsQuery("image_get") =>
        /\ ~r[1].panicked
        /\ r[1].lookup.col = ClampedIndex(q[1].py, q[1].img.height)
        /\ r[1].lookup.row = ClampedIndex(q[1].px, q[1].img.width)
        /\ <<r[1].lookup.col, r[1].lookup.row>> \in DOMAIN q[1].img.px
        /\ r[1].value
              = RoundDiv(q[1].img.px[<<r[1].lookup.col, r[1].lookup.row>>]
                                    [q[1].channel] * FP, 255)
        /\ 0 <= r[1].value /\ r[1].value <= 1 * FP

\* the number of vertices of a mesh
VertexCount(mesh) == mesh.positions \div 3

\* the meshes C24 lists as inconsistent
Inconsistent(mesh) ==
    \/ mesh.positions % 3 # 0
    \/ mesh.normals % 3 # 0
    \/ mesh.normals # 0 /\ mesh.normals # 3 * VertexCount(mesh)
    \/ mesh.uvs # 0 /\ mesh.uvs # 2 * VertexCount(mesh)
    \/ Len(mesh.indices) % 3 # 0
    \/ mesh.indices = <<>>
    \/ \E i \in DOMAIN mesh.indices : mesh.indices[i] >= VertexCount(mesh)

\* C24: new_from_mesh panics without creating a GPU object exactly for the
\* meshes whose positions or normals length is not a multiple of 3, whose
\* non-empty normals or uvs do not match the vertex count, whose index
\* count is not a multiple of 3, whose index list is empty or whose largest
\* index is not below the vertex count; for every other mesh it creates
\* the vertex array.
C24_InconsistentMeshPanicsFirst ==
    IsQuery("new_from_mesh") =>
        /\ r[1].panicked <=> Inconsistent(q[1].mesh)
        /\ r[1].panicked => r[1].gl_created = 0
        /\ ~r[1].panicked => r[1].ok /\ r[1].gl_created > 0

\* a mesh rejected only for an index equal to the vertex count
C24_Witness ==
    /\ IsQuery("new_from_mesh")
    /\ r[1].panicked
    /\ q[1].mesh.positions = 12 /\ q[1].mesh.normals = 12 /\ q[1].mesh.uvs = 8
    /\ q[1].mesh.indices = <<0, 1, 2, 4, 2, 3>>

\* a mesh without normals and uvs that is accepted
C24_WitnessAccepted ==
    /\ IsQuery("new_from_mesh")
    /\ ~r[1].panicked
    /\ q[1].mesh.normals = 0 /\ q[1].mesh.uvs = 0
    /\ r[1].gl_created = MeshVaoObjects

\* C25: t seconds after the Scene was created eye_position is the base
\* position (1, 1, 2) plus the bob, whose components stay within 0.1, 0.03
\* and 0.05 of zero; look_at is the constant (3.5, 3.5, 0.3).
C25_EyePositionBobs ==
    IsQuery("camera") =>
        LET bob == EyeBob(q[1].t)
        IN  /\ r[1].eye = <<1000 + bob[1], 1000 + bob[2], 2000 + bob[3]>>
            /\ -100 <= bob[1] /\ bob[1] <= 100
            /\ -30 <= bob[2] /\ bob[2] <= 30
            /\ -50 <= bob[3] /\ bob[3] <= 50
            /\ r[1].target = <<3500, 3500, 300>>

(***************************************************************************)
(* Properties of the event loop (SpecLoop).                                *)
(***************************************************************************)
NoLiveObjects(live) ==
    live.vaos = 0 /\ live.buffers = 0 /\ live.textures = 0

\* C11: once a Scene is replaced, every GPU object allocated during its
\* construction (vertex arrays, buffers, displacement and variant textures)
\* is deleted: only the current Scene has live GPU objects.
C11_ReplacedSceneObjectsDeleted ==
    \A g \in 1 .. Len(gpu) - 1 : NoLiveObjects(gpu[g])

\* the seven values Scene::create draws from the generator seeded by seed
SubSeedsOf(seed) ==
    [i \in 1 .. 7 |-> RngAdvance(SmallRngSeedFromU64(seed), i)]

SameScene(a, b) ==
    /\ a.entities = b.entities
    /\ a.sub_seeds = b.sub_seeds
    /\ SameCategory(a.trees, b.trees)
    /\ SameCategory(a.saplings, b.saplings)
    /\ SameCategory(a.bushes, b.bushes)
    /\ SameCategory(a.shrubs, b.shrubs)

C13_WitnessReverse ==
    /\ Len(nav) = 2
    /\ nav[1].key = "left" /\ nav[2].key = "right"
    /\ nav[1].seed = 0 /\ nav[2].seed = MaxSeed
    /\ renderer[1].scene.trees.instance_count > 0

\* a step taken while the (context, surface, window) state is not set and
\* that does not set it: nothing is drawn, the renderer and the GPU objects
\* are left alone, and the handler does not panic
QuietBeforeResumed ==
    (state = None /\ state' = None) =>
        /\ frame' = frame
        /\ renderer' = renderer
        /\ gpu' = gpu
        /\ loop_status' # "panicked"

\* C27: whenever the (context, surface, window) state is set the renderer
\* is set, so the unwraps of the Resized and RedrawRequested handlers find
\* it; before the first Resumed event the Resized, RedrawRequested and
\* arrow-key handlers draw nothing, change no scene and do not panic.
C27_RendererSetWithState ==
    /\ [](state # None => renderer # None)
    /\ [](renderer = None => (frame = None /\ gpu = <<>> /\ nav = <<>>))
    /\ [][QuietBeforeResumed]_vars

\* after Resumed both unwraps were executed: a frame was drawn and a
\* resize reached the renderer
C27_Witness ==
    /\ state # None
    /\ renderer # None
    /\ frame # None
    /\ renderer[1].aspect = <<2, 1>>

\* b holds the triple that a holds: the same context and window, the
\* surface possibly resized
SameTriple(a, b) ==
    /\ a # None /\ b # None
    /\ b[1].gl_context = a[1].gl_context
    /\ b[1].window = a[1].window

\* a Resumed event that finds the state set: the handler panics and leaves
\* the state, the renderer and the GPU objects as they are
ResumedAgainAborts ==
    (state # None /\ Resumed) =>
        /\ loop_status' = "panicked"
        /\ state' = state
        /\ renderer' = renderer
        /\ gpu' = gpu

\* C28: the (context, surface, window) state is assigned at most once: once
\* it is set no step changes it, and a Resumed event that finds it set
\* creates no second renderer; its handler panics.
C28_StateAssignedOnce ==
    /\ [][state # None => SameTriple(state, state')]_vars
    /\ [][ResumedAgainAborts]_vars
    /\ [](loop_status = "panicked" => (state # None /\ renderer # None))

\* a second Resumed event arrived after a Scene had been replaced
C28_Witness ==
    /\ loop_status = "panicked"
    /\ state # None
    /\ renderer # None
    /\ Len(gpu) = 2

\* a step that changes the size of the GL surface or the aspect ratio of
\* the renderer gives both the same width and height, neither of them 0
ResizeIsNonZero ==
    (state # None /\ renderer # None /\ state' # None /\ renderer' # None
       /\ (state'[1].gl_surface # state[1].gl_surface
             \/ renderer'[1].aspect # renderer[1].aspect)) =>
        /\ state'[1].gl_surface = renderer'[1].aspect
        /\ renderer'[1].aspect[1] # 0
        /\ renderer'[1].aspect[2] # 0

\* C29: the size of the GL surface and the width and height behind the
\* renderer's aspect ratio are never 0: a Resized event with width 0 or
\* height 0 changes neither, and Renderer::resize is only called with a
\* width and a height that are not 0.
C29_NoResizeToZero ==
    /\ [](state # None => state[1].gl_surface[1] # 0 /\ state[1].gl_surface[2] # 0)
    /\ [](renderer # None => renderer[1].aspect[1] # 0 /\ renderer[1].aspect[2] # 0)
    /\ [][ResizeIsNonZero]_vars

\* a Resized event with a width and a height other than 0 was handled
C29_Witness ==
    /\ state # None
    /\ renderer # None
    /\ state[1].gl_surface = <<2, 1>>
    /\ renderer[1].aspect = <<2, 1>>

(***************************************************************************)
(* Properties of Mesh::quad_mesh (SpecPure).                               *)
(***************************************************************************)
\* C30: for n >= 1 quad_mesh(n) has (n+1)^2 vertices with as many normals
\* and uvs and 6 n^2 indices, all below (n+1)^2, and check_consitency
\* accepts it; quad_mesh(0) has no index and check_consitency rejects it.
C30_QuadMeshConsistent ==
    IsQuery("quad_mesh") =>
        LET n == q[1].n
            mesh == r[1].mesh
        IN  /\ n >= 1 =>
                  /\ mesh.positions = 3 * (n + 1) * (n + 1)
                  /\ mesh.normals = 3 * (n + 1) * (n + 1)
                  /\ mesh.uvs = 2 * (n + 1) * (n + 1)
                  /\ Len(mesh.indices) = 6 * n * n
                  /\ \A i \in DOMAIN mesh.indices :
                        0 <= mesh.indices[i] /\ mesh.indices[i] < (n + 1) * (n + 1)
                  /\ r[1].ok
            /\ n = 0 => mesh.indices = <<>> /\ ~r[1].ok

\* a mesh of several quads per side whose last vertex is used
C30_Witness ==
    /\ IsQuery("quad_mesh")
    /\ q[1].n >= 2
    /\ r[1].ok
    /\ \E i \in DOMAIN r[1].mesh.indices :
          r[1].mesh.indices[i] = (q[1].n + 1) * (q[1].n + 1) - 1

\* quad_mesh(0): one vertex, no index
C30_WitnessZero ==
    /\ IsQuery("quad_mesh")
    /\ q[1].n = 0
    /\ r[1].mesh.positions = 3
    /\ ~r[1].ok

====
